---- MODULE Spec2Model ----
(***************************************************************************)
(* Verification model of the deal pipeline of bb_dealer:                   *)
(*   - lib/categories.js  (category table, thresholds, badge)              *)
(*   - lib/normalize.js   (createDeal, calculateDiscount)                  *)
(*   - lib/cache.js       (JSON file cache with TTL)                       *)
(*   - lib/deals.js       (fetchAllDeals aggregator)                       *)
(*   - fetch-stores.js / check-all-conditions scan (nationwide scans)      *)
(*   - services/bestbuyAvailability.js + routes/api/availability.js        *)
(* Each component has its own specification over the shared variables; the *)
(* variables of the other components stay at their idle values.            *)
(*                                                                         *)
(* JavaScript values: undefined is the string "undefined", null the string *)
(* "null"; a raw input object is a function whose DOMAIN holds exactly the *)
(* keys the caller supplied.  Strings that the code searches (product      *)
(* names, keywords) are sequences of one-character strings.                *)
(***************************************************************************)
EXTENDS Integers, Sequences, FiniteSets, TLC

VARIABLES
  now,        \* Date.now(), milliseconds
  ticks,      \* how many times the simulated clock advanced
  fields,     \* normalizer: the raw input object handed to createDeal
  deal,       \* normalizer: the Deal built by the latest createDeal call
  prev,       \* normalizer: the Deal built by the call before that
  badgeIn,    \* classifier: the (discount, categoryId) arguments of getDealBadge
  badgeOut,   \* classifier: what getDealBadge returned for badgeIn
  files,      \* file cache: the content of cache/<source>.json, per source
  written,    \* file cache: the payload and time of the latest write, per source
  lastRead,   \* file cache: the key and result of a read that has just returned
  fsPc,       \* fetch-stores.js: position in fetchStores()
  zipCode,    \* fetch-stores.js: process.argv[3], the requester's zip code
  fsIdx,      \* fetch-stores.js: index of the next entry of NATIONWIDE_ZIPCODES
  allStores,  \* fetch-stores.js: the resolved hit list
  seenStoreIds, \* fetch-stores.js: the ids already in allStores
  output,     \* fetch-stores.js: the JSON printed on stdout, and the exit code
  queried,    \* fetch-stores.js: the zip codes queried so far, in order
  observed,   \* fetch-stores.js: per store id, where a response first listed it as available
  fsSession,  \* fetch-stores.js: whether the browser session was established
  failedQueries,  \* store scans: the queries of the loop that failed, each with the stores
              \* collected when it failed
  handler,    \* /api/stores handler: nationwide, zipCodes and consecutiveFailures
  pending,    \* store scans: the positions of `queried` whose query is in flight
  lastResult, \* store scans: the store ids the response just received reports in stock
  browser,    \* availability service: the module-level browser handle
  context,    \* availability service: the module-level browser context handle
  handles,    \* availability service: how many handles Playwright has created
  closedHandles, \* availability service: the handles that were closed
  availabilityCache, \* availability service: the in-memory TTL cache, in Map order
  rq,         \* availability service: per request, the state of its handler
  closer,     \* availability service: position of a closeBestBuySession() call
  closes,     \* availability service: completed closeBestBuySession() calls
  launches,   \* availability service: chromium.launch() calls since the last close
  handed,     \* availability service: handles returned to callers since the last close
  storedLog,  \* availability service: every (zip, sku, condition) stored in the
              \* availability cache, with the time its entry expires
  aggConfig,  \* fetchAllDeals: the config argument
  aggSources, \* fetchAllDeals: the destructured source list
  aggIdx,     \* fetchAllDeals: position of the for-of loop in the source list
  aggPc,      \* fetchAllDeals: position of the call
  aggStartTime, \* fetchAllDeals: startTime of the adapter call in progress
  results,    \* fetchAllDeals: the results object {deals, errors, sources}
  settled,    \* fetchAllDeals: how each source of the list ended, in order
  inFlight,   \* fetchAllDeals: positions of the source list whose fetchDeals call has
              \* started and has not settled
  started,    \* fetchAllDeals: the positions whose fetchDeals call was started, in order
  adSource,   \* adapter fetchDeals: the adapter that is called
  adArgs,     \* adapter fetchDeals: the arguments of the call
  adPc,       \* adapter fetchDeals: position of the call
  adStep,     \* adapter fetchDeals: the upstream pass or page that comes next
  allDeals,   \* adapter fetchDeals: the Deals collected so far
  allProducts, \* adapter fetchDeals: the products scraped so far (Micro Center)
  seenSkus,   \* adapter fetchDeals: the SKUs the search pass has seen (Best Buy)
  adLog,      \* adapter fetchDeals: upstream requests, cache writes, products listed
  adResult,   \* adapter fetchDeals: what the call resolved or rejected with
  adCached,   \* adapter fetchDeals: what cache.read returned when the call began
  cacheOpts,  \* createTtlCache: the {ttlMs, maxEntries} the cache was created with
  ttlCache,   \* createTtlCache: the Map, entries in insertion order
  recency,    \* createTtlCache: the stored keys, least recently used first
  evicted,    \* createTtlCache: what the last set removed for overflow, if anything
  lastGet,    \* createTtlCache: the last get, and whether it found a live entry
  pgLoop,     \* pagination: the function whose while loop is running
  pgPc,       \* pagination: position in the loop
  page,       \* pagination: the page requested next
  hasMore,    \* pagination: the loop's hasMore flag
  retryCount, \* pagination: the loop's retryCount
  upstream,   \* pagination: whether the provider answers every request with HTTP 403
  attempts,   \* pagination: requests for the current page since the last page that loaded
  lastFailure \* pagination: the last failed request and what the catch block did with it

vars == <<now, ticks, fields, deal, prev, badgeIn, badgeOut, files, written, lastRead,
          fsPc, zipCode, fsIdx, allStores, seenStoreIds, output, queried, observed,
          fsSession, failedQueries, handler, pending, lastResult, browser, context, handles, closedHandles,
          availabilityCache, rq,
          closer, closes, launches, handed, storedLog, aggConfig, aggSources, aggIdx, aggPc,
          aggStartTime, results, settled, inFlight, started, adSource, adArgs, adPc, adStep,
          allDeals, allProducts, seenSkus, adLog, adResult, adCached, cacheOpts, ttlCache,
          recency, evicted, lastGet, pgLoop, pgPc, page, hasMore, retryCount, upstream,
          attempts, lastFailure>>

clockVars      == <<now, ticks>>
normalizerVars == <<fields, deal, prev>>
badgeVars      == <<badgeIn, badgeOut>>
cacheVars      == <<files, written, lastRead>>
scanVars       == <<fsPc, zipCode, fsIdx, allStores, seenStoreIds, output, queried, observed,
                     fsSession, failedQueries, handler, pending, lastResult>>

\* what the actions of one component leave alone
serviceVars    == <<browser, context, handles, closedHandles, availabilityCache, rq,
                     closer, closes, launches, handed, storedLog>>

aggregatorVars == <<aggConfig, aggSources, aggIdx, aggPc, aggStartTime, results, settled,
                    inFlight, started>>

adapterVars == <<adSource, adArgs, adPc, adStep, allDeals, allProducts, seenSkus, adLog,
                 adResult, adCached>>

memoryVars == <<cacheOpts, ttlCache, recency, evicted, lastGet>>

paginationVars == <<pgLoop, pgPc, page, hasMore, retryCount, upstream, attempts, lastFailure>>

OutsideNormalizer == <<badgeVars, cacheVars, scanVars, serviceVars, aggregatorVars, adapterVars,
                       memoryVars, paginationVars>>
OutsideBadge      == <<clockVars, normalizerVars, cacheVars, scanVars, serviceVars,
                       aggregatorVars, adapterVars, memoryVars, paginationVars>>
OutsideCache      == <<normalizerVars, badgeVars, scanVars, serviceVars, aggregatorVars, adapterVars,
                       memoryVars, paginationVars>>
OutsideScan       == <<clockVars, normalizerVars, badgeVars, cacheVars, serviceVars,
                       aggregatorVars, adapterVars, memoryVars, paginationVars>>
OutsideService    == <<clockVars, normalizerVars, badgeVars, cacheVars, scanVars,
                       aggregatorVars, adapterVars, memoryVars, paginationVars>>
OutsideAggregator == <<ticks, normalizerVars, badgeVars, cacheVars, scanVars, serviceVars,
                       adapterVars, memoryVars, paginationVars>>
OutsideAdapterAndCache == <<normalizerVars, badgeVars, scanVars, serviceVars, aggregatorVars,
                            memoryVars, paginationVars>>
OutsideAdapter    == <<clockVars, cacheVars, OutsideAdapterAndCache>>
OutsideMemory     == <<normalizerVars, badgeVars, cacheVars, scanVars, serviceVars,
                       aggregatorVars, adapterVars, paginationVars>>
OutsidePagination == <<clockVars, normalizerVars, badgeVars, cacheVars, scanVars,
                       serviceVars, aggregatorVars, adapterVars, memoryVars>>

Undefined == "undefined"
Null      == "null"
None      == [absent |-> TRUE]   \* no object yet (a call that has not been made)

Has(obj, key) == key \in DOMAIN obj

(***************************************************************************)
(* Bounds of the model.                                                    *)
(***************************************************************************)
MaxTicks    == 2      \* clock advances per behaviour
MaxDiscount == 45     \* getDealBadge is swept over -MaxDiscount..MaxDiscount
MaxLocations == 2     \* entries of items[0].locations in one upstream response
NumRequests == 2      \* POST /api/availability requests handled in one behaviour
MaxCloses == 1        \* closeBestBuySession() calls in one behaviour
MaxSources == 3       \* length of config.sources handed to fetchAllDeals
MaxProducts == 2      \* products upstream lists during one adapter fetch cycle
MaxEntries == 2       \* largest maxEntries a cache is created with
MaxPages == 2         \* largest totalPages the provider reports
MaxAttempts == 5      \* the count of requests for one page stops growing here

(***************************************************************************)
(* The simulated clock.                                                    *)
(***************************************************************************)
StartTime == 1000

InitClock == now = StartTime /\ ticks = 0

(***************************************************************************)
(* lib/categories.js                                                       *)
(***************************************************************************)
Keywords_laptops ==
  {<<"l","a","p","t","o","p">>,
   <<"n","o","t","e","b","o","o","k">>,
   <<"m","a","c","b","o","o","k">>,
   <<"m","a","c","b","o","o","k"," ","p","r","o">>,
   <<"m","a","c","b","o","o","k"," ","a","i","r">>,
   <<"c","h","r","o","m","e","b","o","o","k">>,
   <<"u","l","t","r","a","b","o","o","k">>,
   <<"o","m","n","i","b","o","o","k">>,
   <<"s","p","e","c","t","r","e">>,
   <<"e","n","v","y">>,
   <<"p","a","v","i","l","i","o","n">>,
   <<"o","m","e","n">>,
   <<"t","h","i","n","k","p","a","d">>,
   <<"i","d","e","a","p","a","d">>,
   <<"y","o","g","a">>,
   <<"l","e","g","i","o","n">>,
   <<"x","p","s">>,
   <<"i","n","s","p","i","r","o","n">>,
   <<"l","a","t","i","t","u","d","e">>,
   <<"a","l","i","e","n","w","a","r","e">>,
   <<"z","e","n","b","o","o","k">>,
   <<"v","i","v","o","b","o","o","k">>,
   <<"r","o","g">>,
   <<"t","u","f">>,
   <<"s","w","i","f","t">>,
   <<"n","i","t","r","o">>,
   <<"p","r","e","d","a","t","o","r">>,
   <<"s","u","r","f","a","c","e"," ","l","a","p","t","o","p">>,
   <<"s","u","r","f","a","c","e"," ","b","o","o","k">>,
   <<"g","r","a","m">>,
   <<"r","a","z","e","r"," ","b","l","a","d","e">>}

Keywords_desktops ==
  {<<"d","e","s","k","t","o","p">>,
   <<"t","o","w","e","r">>,
   <<"a","l","l","-","i","n","-","o","n","e">>,
   <<"a","i","o">>,
   <<"i","m","a","c">>,
   <<"m","a","c"," ","m","i","n","i">>,
   <<"m","a","c"," ","s","t","u","d","i","o">>,
   <<"m","a","c"," ","p","r","o">>,
   <<"o","p","t","i","p","l","e","x">>,
   <<"p","r","e","c","i","s","i","o","n"," ","t","o","w","e","r">>,
   <<"t","h","i","n","k","c","e","n","t","r","e">>,
   <<"t","h","i","n","k","s","t","a","t","i","o","n">>,
   <<"p","r","o","d","e","s","k">>,
   <<"e","l","i","t","e","d","e","s","k">>,
   <<"z"," ","w","o","r","k","s","t","a","t","i","o","n">>,
   <<"i","n","t","e","l"," ","n","u","c">>,
   <<"m","i","n","i"," ","p","c">>,
   <<"b","e","e","l","i","n","k">>,
   <<"g","e","e","k","o","m">>,
   <<"r","a","s","p","b","e","r","r","y"," ","p","i">>}

Keywords_tablets ==
  {<<"i","p","a","d">>,
   <<"i","p","a","d"," ","p","r","o">>,
   <<"i","p","a","d"," ","a","i","r">>,
   <<"t","a","b","l","e","t">>,
   <<"s","u","r","f","a","c","e"," ","p","r","o">>,
   <<"s","u","r","f","a","c","e"," ","g","o">>,
   <<"g","a","l","a","x","y"," ","t","a","b">>}

Keywords_memory ==
  {<<"r","a","m"," ","m","o","d","u","l","e">>,
   <<"m","e","m","o","r","y"," ","m","o","d","u","l","e">>,
   <<"d","d","r","4">>,
   <<"d","d","r","5">>,
   <<"s","o","d","i","m","m">>,
   <<"d","i","m","m">>}

Keywords_storage ==
  {<<"s","s","d">>,
   <<"n","v","m","e">>,
   <<"n","a","s">>,
   <<"h","a","r","d"," ","d","r","i","v","e">>,
   <<"e","x","t","e","r","n","a","l"," ","d","r","i","v","e">>,
   <<"f","l","a","s","h"," ","d","r","i","v","e">>,
   <<"p","o","r","t","a","b","l","e"," ","d","r","i","v","e">>}

\* The table in insertion order (Object.entries order).
CATEGORIES ==
  << [id |-> "laptops",  keywords |-> Keywords_laptops,  goodDeal |-> 20, greatDeal |-> 25],
     [id |-> "desktops", keywords |-> Keywords_desktops, goodDeal |-> 20, greatDeal |-> 30],
     [id |-> "tablets",  keywords |-> Keywords_tablets,  goodDeal |-> 20, greatDeal |-> 25],
     [id |-> "memory",   keywords |-> Keywords_memory,   goodDeal |-> 25, greatDeal |-> 40],
     [id |-> "storage",  keywords |-> Keywords_storage,  goodDeal |-> 25, greatDeal |-> 40] >>

CategoryIds == {CATEGORIES[i].id : i \in DOMAIN CATEGORIES}

\* String.prototype.toLowerCase on the letters the inputs use.
UpperToLower ==
  [c \in {"A","B","C","D","G","K","M","P","R","S","U"} |->
     CASE c = "A" -> "a" [] c = "B" -> "b" [] c = "C" -> "c" [] c = "D" -> "d"
       [] c = "G" -> "g" [] c = "K" -> "k" [] c = "M" -> "m" [] c = "P" -> "p"
       [] c = "R" -> "r" [] c = "S" -> "s" [] c = "U" -> "u"]

toLowerCase(text) ==
  [i \in DOMAIN text |->
     IF text[i] \in DOMAIN UpperToLower THEN UpperToLower[text[i]] ELSE text[i]]

\* String.prototype.includes
includes(text, keyword) ==
  \E i \in 1..(Len(text) - Len(keyword) + 1) :
     SubSeq(text, i, i + Len(keyword) - 1) = keyword

detectCategory(text) ==
  LET lowerText == toLowerCase(text)
      matching  == {i \in DOMAIN CATEGORIES :
                      \E keyword \in CATEGORIES[i].keywords : includes(lowerText, keyword)}
  IN  IF matching = {} THEN Null
      ELSE CATEGORIES[CHOOSE i \in matching : \A j \in matching : i <= j].id

getThresholdsDefault25(categoryId) ==
  IF categoryId \in CategoryIds
    THEN LET category == CATEGORIES[CHOOSE i \in DOMAIN CATEGORIES : CATEGORIES[i].id = categoryId]
         IN  [goodDeal |-> category.goodDeal, greatDeal |-> category.greatDeal]
    ELSE [goodDeal |-> 20, greatDeal |-> 25]

getThresholds(categoryId) ==
  IF categoryId \in CategoryIds
    THEN LET category == CATEGORIES[CHOOSE i \in DOMAIN CATEGORIES : CATEGORIES[i].id = categoryId]
         IN  [goodDeal |-> category.goodDeal, greatDeal |-> category.greatDeal]
    ELSE [goodDeal |-> 20, greatDeal |-> 30]

getDealBadge(discount, categoryId) ==
  LET t == getThresholds(categoryId)
  IN  IF discount >= t.greatDeal THEN "great"
      ELSE IF discount >= t.goodDeal THEN "good"
      ELSE Null

(***************************************************************************)
(* lib/normalize.js                                                        *)
(***************************************************************************)
\* obj[key], undefined when the key was not supplied
Prop(obj, key) == IF Has(obj, key) THEN obj[key] ELSE Undefined

\* obj[key] || fallback, for a key holding a number
NumberOr(obj, key, fallback) ==
  IF Has(obj, key) /\ obj[key] # 0 THEN obj[key] ELSE fallback

\* obj[key] || fallback, for a key holding a string (or null)
StringOr(obj, key, fallback) ==
  IF Has(obj, key) /\ obj[key] \notin {"", Null, Undefined} THEN obj[key] ELSE fallback

\* obj[key] || fallback, for a key holding searchable text
TextOr(obj, key, fallback) ==
  IF Has(obj, key) /\ obj[key] # <<>> THEN obj[key] ELSE fallback

\* Math.round(num / den) for den > 0: the integer nearest to num/den, halves
\* going up.  Prices are whole numbers in this model, so the quotient is
\* exact; the double arithmetic of the code can fall below an exact half
\* (original 40, current 17 gives 57 where 57.5 rounds to 58).
MathRound(num, den) == (2 * num + den) \div (2 * den)

calculateDiscount(original, current) ==
  IF original = 0 \/ original <= 0 THEN 0
  ELSE MathRound((original - current) * 100, original)

\* createDeal with the id defaulting to a timestamp-derived value
createDealStampedId(f, t) ==
  LET category      == StringOr(f, "category", detectCategory(TextOr(f, "name", <<>>)))
      originalPrice == NumberOr(f, "originalPrice", 0)
      currentPrice  == NumberOr(f, "currentPrice", 0)
      discount      == NumberOr(f, "discount", calculateDiscount(originalPrice, currentPrice))
  IN  [id            |-> IF Has(f, "id") THEN f.id ELSE <<"deal", t>>,
       source        |-> Prop(f, "source"),
       category      |-> category,
       name          |-> TextOr(f, "name", <<>>),
       brand         |-> StringOr(f, "brand", ""),
       originalPrice |-> originalPrice,
       currentPrice  |-> currentPrice,
       discount      |-> discount,
       savings       |-> originalPrice - currentPrice,
       condition     |-> StringOr(f, "condition", "open-box"),
       availability  |-> StringOr(f, "availability", "online"),
       url           |-> StringOr(f, "url", ""),
       image         |-> StringOr(f, "image", ""),
       dealBadge     |-> getDealBadge(discount, category),
       fetchedAt     |-> NumberOr(f, "fetchedAt", t),
       sku           |-> Prop(f, "sku"),
       listingId     |-> Prop(f, "listingId"),
       processor     |-> Prop(f, "processor"),
       modelType     |-> Prop(f, "modelType"),
       screenSize    |-> Prop(f, "screenSize"),
       ram           |-> Prop(f, "ram"),
       storage       |-> Prop(f, "storage")]

\* createDeal(fields) evaluated when Date.now() = t
createDeal(f, t) ==
  LET category      == StringOr(f, "category", detectCategory(TextOr(f, "name", <<>>)))
      originalPrice == NumberOr(f, "originalPrice", 0)
      currentPrice  == NumberOr(f, "currentPrice", 0)
      discount      == NumberOr(f, "discount", calculateDiscount(originalPrice, currentPrice))
      savings       == originalPrice - currentPrice
      dealBadge     == getDealBadge(discount, category)
  IN  [id            |-> Prop(f, "id"),
       source        |-> Prop(f, "source"),
       category      |-> category,
       name          |-> TextOr(f, "name", <<>>),
       brand         |-> StringOr(f, "brand", ""),
       originalPrice |-> originalPrice,
       currentPrice  |-> currentPrice,
       discount      |-> discount,
       savings       |-> savings,
       condition     |-> StringOr(f, "condition", "open-box"),
       availability  |-> StringOr(f, "availability", "online"),
       url           |-> StringOr(f, "url", ""),
       image         |-> StringOr(f, "image", ""),
       dealBadge     |-> dealBadge,
       fetchedAt     |-> NumberOr(f, "fetchedAt", t),
       sku           |-> Prop(f, "sku"),
       listingId     |-> Prop(f, "listingId"),
       processor     |-> Prop(f, "processor"),
       modelType     |-> Prop(f, "modelType"),
       screenSize    |-> Prop(f, "screenSize"),
       ram           |-> Prop(f, "ram"),
       storage       |-> Prop(f, "storage")]

DealKeys ==
  {"id", "source", "category", "name", "brand", "originalPrice", "currentPrice",
   "discount", "savings", "condition", "availability", "url", "image", "dealBadge",
   "fetchedAt", "sku", "listingId", "processor", "modelType", "screenSize", "ram",
   "storage"}

(***************************************************************************)
(* Raw inputs of the normalizer: every combination of supplied and missing *)
(* fields over small value sets.                                           *)
(***************************************************************************)
RawBase == [source |-> "bestbuy", condition |-> "Open-Box Excellent"]

Optional(key, values) == {RawBase} \cup {(key :> v) @@ RawBase : v \in values}

ProductNames ==
  { <<"M","a","c","B","o","o","k"," ","A","i","r">>,
    <<"P","r","o","g","r","a","m"," ","S","S","D">> }

UpstreamDiscounts == {0, 50}

RawInputs ==
  { a @@ b @@ c @@ d @@ e @@ g @@ h :
      a \in Optional("originalPrice", {-5, 1299, 1999}),
      b \in Optional("currentPrice", {909, 1749, 2100}),
      c \in Optional("discount", UpstreamDiscounts),
      d \in Optional("category", {Null, "memory"}),
      e \in Optional("name", ProductNames),
      g \in Optional("id", {"bestbuy-6602747-base"}),
      h \in Optional("fetchedAt", {7}) }

InitNormalizer == fields \in RawInputs /\ deal = None /\ prev = None
IdleNormalizer == fields = None /\ deal = None /\ prev = None

\* One call of createDeal on the raw input, at the current time.
CreateDeal ==
  /\ fields # None
  /\ deal' = createDeal(fields, now)
  /\ prev' = deal
  /\ UNCHANGED <<fields, clockVars, OutsideNormalizer>>

\* The clock advances by one millisecond between calls.
TickNormalizer ==
  /\ fields # None
  /\ ticks < MaxTicks
  /\ now' = now + 1
  /\ ticks' = ticks + 1
  /\ UNCHANGED <<normalizerVars, OutsideNormalizer>>

(***************************************************************************)
(* The classifier on its own: getDealBadge applied to swept arguments.     *)
(***************************************************************************)
InitBadge ==
  /\ badgeIn \in [discount : (0 - MaxDiscount)..MaxDiscount,
                  categoryId : CategoryIds \cup {Null, Undefined, "monitors"}]
  /\ badgeOut = None
IdleBadge == badgeIn = None /\ badgeOut = None

CallGetDealBadge ==
  /\ badgeIn # None
  /\ badgeOut = None
  /\ badgeOut' = [badge |-> getDealBadge(badgeIn.discount, badgeIn.categoryId)]
  /\ UNCHANGED <<badgeIn, OutsideBadge>>

(***************************************************************************)
(* lib/cache.js: one JSON file per source, expiry computed when read       *)
(***************************************************************************)
DEFAULT_TTL == 60 * 60 * 1000

CacheKeys == {"bestbuy", "microcenter"}

NoFile   == [exists |-> FALSE]      \* fs.existsSync(cachePath) is false
ReadNull == [null |-> TRUE]         \* read() returned null

\* the keys of a Deal that hold a number or a text, which are never undefined
DefinedKeys == {"originalPrice", "currentPrice", "discount", "savings", "fetchedAt", "name"}

\* JSON.stringify of one object: a property whose value is undefined is left out
stringifyObject(obj) ==
  [key \in {k \in DOMAIN obj : k \in DefinedKeys \/ obj[k] # Undefined} |-> obj[key]]

\* JSON.stringify(data, null, 2) of { timestamp, deals }, as the parsed content
\* JSON.parse gives back for that text
JSONstringify(data) ==
  [timestamp |-> data.timestamp,
   deals     |-> [i \in DOMAIN data.deals |-> stringifyObject(data.deals[i])]]

\* read(source) with expiry at age >= DEFAULT_TTL
readExpiredAtTTL(disk, source, t) ==
  IF disk[source] = NoFile THEN ReadNull
  ELSE LET data == disk[source]
           age  == t - data.timestamp
       IN  [deals |-> data.deals, timestamp |-> data.timestamp, age |-> age,
            expired |-> age >= DEFAULT_TTL]

\* read(source) on the cache directory `disk` when Date.now() = t
read(disk, source, t) ==
  IF disk[source] = NoFile THEN ReadNull
  ELSE LET data == disk[source]
           age  == t - data.timestamp
       IN  [deals |-> data.deals, timestamp |-> data.timestamp, age |-> age,
            expired |-> age > DEFAULT_TTL]

\* write(source, deals): the cache directory after the call
write(disk, source, deals, t) ==
  [disk EXCEPT ![source] = JSONstringify([timestamp |-> t, deals |-> deals])]

\* clear(source)
clear(disk, source) == [disk EXCEPT ![source] = NoFile]

\* Payloads handed to write: Deal arrays as the adapters build them.
CachedDealA ==
  createDeal([id |-> "bestbuy-6602747-base", source |-> "bestbuy",
              originalPrice |-> 1299, currentPrice |-> 909, sku |-> "6602747",
              name |-> <<"M","a","c","B","o","o","k"," ","A","i","r">>], StartTime)
CachedDealB ==
  createDeal([id |-> "mc-openbox-1", source |-> "microcenter",
              originalPrice |-> 1999, currentPrice |-> 1749,
              name |-> <<"P","r","o","g","r","a","m"," ","S","S","D">>], StartTime)
CachePayloads == { <<>>, <<CachedDealA>>, <<CachedDealB, CachedDealA>> }

ClockSteps == {1, DEFAULT_TTL - 1, DEFAULT_TTL}

InitCache ==
  /\ files = [k \in CacheKeys |-> NoFile]
  /\ written = [k \in CacheKeys |-> None]
  /\ lastRead = None
IdleCache == files = None /\ written = None /\ lastRead = None

Write(source, deals) ==
  /\ files # None
  /\ files' = write(files, source, deals, now)
  /\ written' = [written EXCEPT ![source] = [deals |-> deals, at |-> now]]
  /\ lastRead' = None
  /\ UNCHANGED <<clockVars, OutsideCache>>

Read(source) ==
  /\ files # None
  /\ lastRead' = [key |-> source, result |-> read(files, source, now)]
  /\ UNCHANGED <<files, written, clockVars, OutsideCache>>

Clear(source) ==
  /\ files # None
  /\ files[source] # NoFile
  /\ files' = clear(files, source)
  /\ written' = [written EXCEPT ![source] = None]
  /\ lastRead' = None
  /\ UNCHANGED <<clockVars, OutsideCache>>

\* Time passes between two calls.
TickCache(step) ==
  /\ files # None
  /\ ticks < MaxTicks
  /\ now' = now + step
  /\ ticks' = ticks + 1
  /\ lastRead' = None
  /\ UNCHANGED <<files, written, OutsideCache>>

WriteAny == \E source \in CacheKeys, deals \in CachePayloads : Write(source, deals)
ReadAny  == \E source \in CacheKeys : Read(source)
ClearAny == \E source \in CacheKeys : Clear(source)
TickCacheAny == \E step \in ClockSteps : TickCache(step)

(***************************************************************************)
(* fetch-stores.js: store availability for one SKU and condition, the      *)
(* requester's zip code first, then the nationwide sampling zip codes      *)
(***************************************************************************)
NATIONWIDE_ZIPCODES == <<"10001", "90001", "60601", "77001", "98101">>

StoreIds == {"41", "42"}

\* ispu.locations: the details upstream reports for a store
StoreDetails(id) ==
  [id |-> id, name |-> "Best Buy", distance |-> IF id = "41" THEN "3.1" ELSE "12.7"]

\* items[0].locations entries: with or without an availability object
ItemLocations ==
  [locationId : StoreIds]
    \cup [locationId : StoreIds,
          availability : [availablePickupQuantity : {0, 3}, minDate : {"2026-01-02"}]]

SeqsUpTo(S, n) == UNION {[1..k -> S] : k \in 0..n}

\* What fetchStoresForZip can return: { error }, a storeAvailability payload,
\* or a JSON body without ispu.
QueryResults ==
  {[error |-> "API returned 403"], [message |-> "no ispu"]}
    \cup {[ispu |-> [items |-> << [locations |-> locs] >>,
                     locations |-> details]] :
            locs \in SeqsUpTo(ItemLocations, MaxLocations),
            details \in {<<>>, <<StoreDetails("41")>>, <<StoreDetails("42")>>,
                         <<StoreDetails("41"), StoreDetails("42")>>}}

\* a query either returns one of these or throws (page.evaluate rejects)
Thrown == [thrown |-> "page crashed"]
QueryOutcomes == QueryResults \cup {Thrown}

\* storeDetailsMap[id]: the last entry of ispu.locations with that id
DetailsFor(details, id) ==
  LET at == {i \in DOMAIN details : details[i].id = id}
  IN  IF at = {} THEN None ELSE details[CHOOSE i \in at : \A j \in at : j <= i]

IsAvailable(loc) ==
  Has(loc, "availability") /\ loc.availability.availablePickupQuantity > 0

\* the locations of a response whose availablePickupQuantity is above zero
ReportedInStock(result) ==
  IF ~Has(result, "ispu") THEN {}
  ELSE LET locs == result.ispu.items[1].locations
       IN  {locs[i].locationId : i \in {j \in DOMAIN locs : IsAvailable(locs[j])}}

extractAvailableStores(result) ==
  IF ~Has(result, "ispu") THEN <<>>
  ELSE LET details == result.ispu.locations
           kept(loc) == IsAvailable(loc) /\ DetailsFor(details, loc.locationId) # None
           locs == SelectSeq(result.ispu.items[1].locations, kept)
       IN  [i \in DOMAIN locs |->
              LET storeDetails == DetailsFor(details, locs[i].locationId)
              IN  [id         |-> storeDetails.id,
                   name       |-> storeDetails.name,
                   distance   |-> storeDetails.distance,
                   quantity   |-> locs[i].availability.availablePickupQuantity,
                   pickupDate |-> locs[i].availability.minDate]]

\* the ids of a store list
Ids(stores) == {stores[i].id : i \in DOMAIN stores}

RECURSIVE AddNewStoresKeepDistance(_, _, _, _)
\* the nationwide loop body without clearing the distance
AddNewStoresKeepDistance(stores, seen, found, zip) ==
  IF found = <<>> THEN [stores |-> stores, seen |-> seen]
  ELSE LET store == Head(found)
       IN  IF store.id \in seen
             THEN AddNewStoresKeepDistance(stores, seen, Tail(found), zip)
             ELSE AddNewStoresKeepDistance(
                    Append(stores, ("searchedFrom" :> zip) @@ store),
                    seen \cup {store.id}, Tail(found), zip)

RECURSIVE AddNewStores(_, _, _, _)
\* for (const store of stores) if (!seenStoreIds.has(store.id)) { ... }
AddNewStores(stores, seen, found, zip) ==
  IF found = <<>> THEN [stores |-> stores, seen |-> seen]
  ELSE LET store == Head(found)
       IN  IF store.id \in seen
             THEN AddNewStores(stores, seen, Tail(found), zip)
             ELSE AddNewStores(
                    Append(stores, ("searchedFrom" :> zip) @@ [store EXCEPT !.distance = Null]),
                    seen \cup {store.id}, Tail(found), zip)

\* per store id, the first response that listed it: where from, which distance
Observe(seenAt, found, from) ==
  [id \in DOMAIN seenAt \cup Ids(found) |->
     IF id \in DOMAIN seenAt THEN seenAt[id]
     ELSE LET first == CHOOSE i \in DOMAIN found :
                          found[i].id = id /\ \A j \in DOMAIN found : found[j].id = id => i <= j
          IN  [from |-> from, distance |-> found[first].distance]]

NoOutput == [printed |-> FALSE]

InitScan ==
  /\ fsPc = "launch"
  /\ zipCode \in {"30303", "60601"}
  /\ fsIdx = 1
  /\ allStores = <<>>
  /\ seenStoreIds = {}
  /\ output = NoOutput
  /\ queried = <<>>
  /\ observed = <<>>
  /\ fsSession = "pending"
  /\ failedQueries = <<>>
  /\ handler = None
  /\ pending = {}
  /\ lastResult = None
IdleScan ==
  /\ fsPc = "idle" /\ zipCode = None /\ fsIdx = 0 /\ allStores = <<>>
  /\ seenStoreIds = {} /\ output = NoOutput /\ queried = <<>> /\ observed = <<>>
  /\ fsSession = "idle" /\ failedQueries = <<>> /\ handler = None
  /\ pending = {} /\ lastResult = None

\* fetchStores().catch(...): the rejection handler at the end of the script
FatalOutput(message) == [error |-> message, stores |-> <<>>, exitCode |-> 1]

\* the catch block of fetchStores, and the early return on a local API error
ErrorOutput(message) == [stores |-> <<>>, error |-> message, exitCode |-> 0]

\* chromium.launch(...)
FsLaunch(ok) ==
  /\ fsPc = "launch"
  /\ IF ok THEN fsPc' = "context" /\ UNCHANGED <<output, fsSession>>
     ELSE /\ fsPc' = "done"
          /\ output' = FatalOutput("browser launch failed")
          /\ fsSession' = "failed"
  /\ UNCHANGED <<zipCode, fsIdx, allStores, seenStoreIds, queried, observed, failedQueries,
                 handler, pending, lastResult, OutsideScan>>

\* browser.newContext(...), addInitScript, context.newPage()
FsNewContext(ok) ==
  /\ fsPc = "context"
  /\ IF ok THEN fsPc' = "page" /\ UNCHANGED <<output, fsSession>>
     ELSE /\ fsPc' = "done"
          /\ output' = FatalOutput("context creation failed")
          /\ fsSession' = "failed"
  /\ UNCHANGED <<zipCode, fsIdx, allStores, seenStoreIds, queried, observed, failedQueries,
                 handler, pending, lastResult, OutsideScan>>

\* steps 1 and 2: resolve the product path and load the open-box page
FsLoadPage(ok) ==
  /\ fsPc = "page"
  /\ IF ok THEN fsPc' = "local" /\ fsSession' = "established" /\ UNCHANGED output
     ELSE /\ fsPc' = "done"
          /\ output' = ErrorOutput("page.goto: Timeout 60000ms exceeded")
          /\ fsSession' = "failed"
  /\ UNCHANGED <<zipCode, fsIdx, allStores, seenStoreIds, queried, observed, failedQueries,
                 handler, pending, lastResult, OutsideScan>>

\* step 3: the requester's zip code
FsLocalIssue ==
  /\ fsPc = "local"
  /\ fsPc' = "localWait"
  /\ queried' = Append(queried, zipCode)
  /\ pending' = pending \cup {Len(queried) + 1}
  /\ UNCHANGED <<zipCode, fsIdx, allStores, seenStoreIds, output, observed, fsSession,
                 failedQueries, handler, lastResult, OutsideScan>>

\* step 3: the local query has settled
FsLocalQuery(result) ==
  /\ fsPc = "localWait"
  /\ pending' = pending \ {Len(queried)}
  /\ IF result = Thrown
       THEN /\ fsPc' = "done"
            /\ output' = ErrorOutput(result.thrown)
            /\ UNCHANGED <<allStores, seenStoreIds, observed, lastResult>>
     ELSE IF Has(result, "error")
       THEN /\ fsPc' = "done"
            /\ output' = ErrorOutput(result.error)
            /\ UNCHANGED <<allStores, seenStoreIds, observed, lastResult>>
     ELSE /\ fsPc' = "scan"
          /\ allStores' = extractAvailableStores(result)
          /\ seenStoreIds' = Ids(extractAvailableStores(result))
          /\ observed' = Observe(observed, extractAvailableStores(result), "local")
          /\ lastResult' = [inStock |-> ReportedInStock(result)]
          /\ UNCHANGED output
  /\ UNCHANGED <<zipCode, fsIdx, queried, fsSession, failedQueries, handler, OutsideScan>>

\* step 4, an entry equal to the requester's zip code: continue
FsScanSkip ==
  /\ fsPc = "scan"
  /\ fsIdx <= Len(NATIONWIDE_ZIPCODES)
  /\ NATIONWIDE_ZIPCODES[fsIdx] = zipCode
  /\ fsIdx' = fsIdx + 1
  /\ UNCHANGED <<fsPc, zipCode, allStores, seenStoreIds, output, queried, observed, fsSession,
                 failedQueries, handler, pending, lastResult, OutsideScan>>

\* a failed query that ends the loop and drops what was collected
AbortOnFailedQuery(stores) == [pc |-> "failed", allStores |-> <<>>]

\* a query of the loop that returned { error } or threw: it is logged, the stores
\* collected so far stay, and the loop goes on
SkipFailedQuery(stores) == [pc |-> "scan", allStores |-> stores]

\* a query that is started and not awaited: the loop goes on to the next zip code
queryNotAwaited(loop, waiting, idx) == [pc |-> loop, idx |-> idx + 1]

\* `await fetchStoresForZip(...)`, `await fetch(storesUrl)`: the loop is suspended at
\* this zip code until the query settles
awaitQuery(loop, waiting, idx) == [pc |-> waiting, idx |-> idx]

\* step 4, one sampling zip code: the query is issued
FsScanIssue ==
  /\ fsPc = "scan"
  /\ fsIdx <= Len(NATIONWIDE_ZIPCODES)
  /\ NATIONWIDE_ZIPCODES[fsIdx] # zipCode
  /\ queried' = Append(queried, NATIONWIDE_ZIPCODES[fsIdx])
  /\ pending' = pending \cup {Len(queried) + 1}
  /\ lastResult' = None
  /\ LET next == awaitQuery("scan", "scanWait", fsIdx)
     IN  fsPc' = next.pc /\ fsIdx' = next.idx
  /\ UNCHANGED <<zipCode, allStores, seenStoreIds, output, observed, fsSession, failedQueries,
                 handler, OutsideScan>>

\* step 4, one sampling zip code: the query has settled; add the new stores, wait 500 ms
FsScanQuery(result) ==
  /\ fsPc = "scanWait"
  /\ pending' = pending \ {Len(queried)}
  /\ LET nationwideZip == NATIONWIDE_ZIPCODES[fsIdx]
     IN  IF result = Thrown \/ Has(result, "error")
           THEN LET caught == SkipFailedQuery(allStores)
                IN  /\ fsPc' = caught.pc
                    /\ allStores' = caught.allStores
                    /\ failedQueries' = Append(failedQueries, [zip |-> nationwideZip,
                                                               kept |-> allStores])
                    /\ UNCHANGED <<seenStoreIds, observed, lastResult>>
           ELSE LET stores == extractAvailableStores(result)
                    added  == AddNewStores(allStores, seenStoreIds, stores, nationwideZip)
                IN  /\ fsPc' = "scan"
                    /\ allStores' = added.stores
                    /\ seenStoreIds' = added.seen
                    /\ observed' = Observe(observed, stores, nationwideZip)
                    /\ lastResult' = [inStock |-> ReportedInStock(result)]
                    /\ UNCHANGED failedQueries
  /\ fsIdx' = fsIdx + 1
  /\ UNCHANGED <<zipCode, output, queried, fsSession, handler, OutsideScan>>

\* the results are printed
FsOutput ==
  /\ fsPc = "scan"
  /\ fsIdx > Len(NATIONWIDE_ZIPCODES)
  /\ fsPc' = "done"
  /\ output' = [stores |-> allStores, exitCode |-> 0]
  /\ UNCHANGED <<zipCode, fsIdx, allStores, seenStoreIds, queried, observed, fsSession,
                 failedQueries, handler, pending, lastResult, OutsideScan>>

FsLaunchAny     == \E ok \in BOOLEAN : FsLaunch(ok)
FsNewContextAny == \E ok \in BOOLEAN : FsNewContext(ok)
FsLoadPageAny   == \E ok \in BOOLEAN : FsLoadPage(ok)
FsLocalQueryAny == \E result \in QueryOutcomes : FsLocalQuery(result)
FsScanQueryAny  == \E result \in QueryOutcomes : FsScanQuery(result)

(***************************************************************************)
(* The /api/stores/<sku> handler of the server: the public stores API for  *)
(* the requester's postal code and, when nationwide, for the metro zips.   *)
(* Its allStores, seenStoreIds and loop index are the scan's variables.    *)
(***************************************************************************)
metroZips ==
  <<"10001", "90001", "60601", "77001", "98101", "33101", "80201", "30301", "96813">>

TOP_STORES == 25   \* allStores.slice(0, 25)

NO_DISTANCE == 9999   \* (a.distance || 9999)

\* data.stores of the stores API
ApiStores ==
  LET near == [storeID |-> "281", distance |-> 3]
      far  == [storeID |-> "1187", distance |-> 12]
  IN  {<<>>, <<near>>, <<far, near>>}

\* what `await fetch(storesUrl)` does: it rejects with an Error, or resolves with the
\* parsed JSON, which has stores or not
FetchOutcomes ==
  {[thrown |-> "403 Forbidden - possibly rate limited"], [thrown |-> "Invalid JSON response"],
   [data |-> [total |-> 0]]}
    \cup {[data |-> [stores |-> stores]] : stores \in ApiStores}

\* the query parameters: postalCode (null when absent) and nationwide
StoreQueries == [postalCode : {Null, "30303", "60601"}, nationwide : BOOLEAN]

RECURSIVE AddApiStores(_, _, _, _)
\* for (const store of data.stores) if (!seenStoreIds.has(store.storeID)) { ... }
AddApiStores(stores, seen, found, zip) ==
  IF found = <<>> THEN [stores |-> stores, seen |-> seen]
  ELSE LET store == Head(found)
       IN  IF store.storeID \in seen
             THEN AddApiStores(stores, seen, Tail(found), zip)
             ELSE AddApiStores(Append(stores, ("searchedFrom" :> zip) @@ store),
                               seen \cup {store.storeID}, Tail(found), zip)

\* the comparator of the final sort: the requester's own results first, then by distance
CompareStores(a, b, postalCode) ==
  LET aLocal == a.searchedFrom = postalCode
      bLocal == b.searchedFrom = postalCode
      dist(x) == IF x.distance = 0 THEN NO_DISTANCE ELSE x.distance
  IN  IF aLocal /\ ~bLocal THEN -1
      ELSE IF ~aLocal /\ bLocal THEN 1
      ELSE dist(a) - dist(b)

RECURSIVE InsertStore(_, _, _)
InsertStore(sorted, store, postalCode) ==
  IF sorted = <<>> THEN <<store>>
  ELSE IF CompareStores(Head(sorted), store, postalCode) <= 0
    THEN <<Head(sorted)>> \o InsertStore(Tail(sorted), store, postalCode)
  ELSE <<store>> \o sorted

RECURSIVE SortStores(_, _)
\* allStores.sort(...): a stable sort
SortStores(stores, postalCode) ==
  IF stores = <<>> THEN <<>>
  ELSE InsertStore(SortStores(SubSeq(stores, 1, Len(stores) - 1), postalCode),
                   stores[Len(stores)], postalCode)

\* a request with a SKU, an API key being configured
InitHandler ==
  /\ fsPc = "request"
  /\ zipCode \in {Null, "30303", "60601"}
  /\ handler \in [nationwide : BOOLEAN, zipCodes : {<<>>}, consecutiveFailures : {0}]
  /\ fsIdx = 1
  /\ allStores = <<>>
  /\ seenStoreIds = {}
  /\ output = NoOutput
  /\ queried = <<>>
  /\ observed = <<>>
  /\ fsSession = "idle"
  /\ failedQueries = <<>>
  /\ pending = {}
  /\ lastResult = None

\* the choice of zipCodes
HandlerStart ==
  /\ fsPc = "request"
  /\ IF handler.nationwide
       THEN /\ handler' = [handler EXCEPT !.zipCodes =
                             IF zipCode # Null THEN <<zipCode>> \o metroZips ELSE metroZips]
            /\ fsPc' = "stores"
            /\ UNCHANGED output
     ELSE IF zipCode # Null
       THEN /\ handler' = [handler EXCEPT !.zipCodes = <<zipCode>>]
            /\ fsPc' = "stores"
            /\ UNCHANGED output
     ELSE /\ output' = [error |-> "Postal code required for local search"]
          /\ fsPc' = "done"
          /\ UNCHANGED handler
  /\ UNCHANGED <<zipCode, fsIdx, allStores, seenStoreIds, queried, observed, fsSession,
                 failedQueries, pending, lastResult, OutsideScan>>

\* one iteration of the loop over zipCodes: the delays, the query, the new stores
HandlerIssue ==
  /\ fsPc = "stores"
  /\ fsIdx <= Len(handler.zipCodes)
  /\ handler' = [handler EXCEPT !.consecutiveFailures = IF @ >= 3 THEN 0 ELSE @]
  /\ queried' = Append(queried, handler.zipCodes[fsIdx])
  /\ pending' = pending \cup {Len(queried) + 1}
  /\ LET next == awaitQuery("stores", "storesWait", fsIdx)
     IN  fsPc' = next.pc /\ fsIdx' = next.idx
  /\ UNCHANGED <<zipCode, allStores, seenStoreIds, output, observed, fsSession, failedQueries,
                 lastResult, OutsideScan>>

\* one iteration of the loop over zipCodes: the query has settled
HandlerQuery(outcome) ==
  /\ fsPc = "storesWait"
  /\ pending' = pending \ {Len(queried)}
  /\ LET zip == handler.zipCodes[fsIdx]
     IN  IF Has(outcome, "thrown")
           THEN /\ handler' = [handler EXCEPT !.consecutiveFailures = @ + 1]
                /\ failedQueries' = Append(failedQueries, [zip |-> zip, kept |-> allStores])
                /\ UNCHANGED <<allStores, seenStoreIds>>
           ELSE LET found == IF Has(outcome.data, "stores") THEN outcome.data.stores
                             ELSE <<>>
                    added == AddApiStores(allStores, seenStoreIds, found, zip)
                IN  /\ handler' = [handler EXCEPT !.consecutiveFailures = 0]
                    /\ allStores' = added.stores
                    /\ seenStoreIds' = added.seen
                    /\ UNCHANGED failedQueries
  /\ fsPc' = "stores"
  /\ fsIdx' = fsIdx + 1
  /\ UNCHANGED <<zipCode, output, queried, observed, fsSession, lastResult, OutsideScan>>

\* after the loop: the sort, and the response with the first 25 stores
HandlerRespond ==
  /\ fsPc = "stores"
  /\ fsIdx > Len(handler.zipCodes)
  /\ LET sorted == IF zipCode # Null /\ Len(allStores) > 0
                     THEN SortStores(allStores, zipCode) ELSE allStores
         top    == SubSeq(sorted, 1, IF Len(sorted) < TOP_STORES THEN Len(sorted)
                                     ELSE TOP_STORES)
     IN  /\ allStores' = sorted
         /\ output' = [postalCode |-> zipCode, nationwide |-> handler.nationwide,
                       stores |-> top]
  /\ fsPc' = "done"
  /\ UNCHANGED <<zipCode, fsIdx, seenStoreIds, queried, observed, fsSession, failedQueries,
                 handler, pending, lastResult, OutsideScan>>

HandlerQueryAny == \E outcome \in FetchOutcomes : HandlerQuery(outcome)

(***************************************************************************)
(* services/memoryCache.js: a Map in insertion order, entries              *)
(* [key, value, expiresAt]                                                 *)
(***************************************************************************)
IndexOfKey(map, key) ==
  LET at == {i \in DOMAIN map : map[i].key = key}
  IN  IF at = {} THEN 0 ELSE CHOOSE i \in at : TRUE

MapDelete(map, key) ==
  LET keep(entry) == entry.key # key IN SelectSeq(map, keep)

\* get(key) at time t: the cache afterwards, and the value or a miss (null)
cacheGet(map, key, t) ==
  LET i == IndexOfKey(map, key)
  IN  IF i = 0 THEN [map |-> map, hit |-> FALSE, value |-> <<>>]
      ELSE IF map[i].expiresAt <= t
        THEN [map |-> MapDelete(map, key), hit |-> FALSE, value |-> <<>>]
      ELSE [map |-> Append(MapDelete(map, key), map[i]), hit |-> TRUE, value |-> map[i].value]

\* a set that never evicts
cacheSetUnbounded(map, key, value, t, ttlMs, maxEntries) ==
  LET entry == [key |-> key, value |-> value, expiresAt |-> t + ttlMs]
      i     == IndexOfKey(map, key)
  IN  IF i = 0 THEN Append(map, entry) ELSE [map EXCEPT ![i] = entry]

\* set(key, value) at time t: Map.set keeps the position of an existing key
cacheSet(map, key, value, t, ttlMs, maxEntries) ==
  LET entry == [key |-> key, value |-> value, expiresAt |-> t + ttlMs]
      i     == IndexOfKey(map, key)
      put   == IF i = 0 THEN Append(map, entry) ELSE [map EXCEPT ![i] = entry]
  IN  IF Len(put) > maxEntries THEN Tail(put) ELSE put

\* prune() at time t: every expired entry is deleted
cachePrune(map, t) ==
  LET live(entry) == entry.expiresAt > t IN SelectSeq(map, live)

\* the keys of a cache, oldest insertion first
KeysOf(map) == [i \in DOMAIN map |-> map[i].key]

\* a list of keys without key k
Without(keys, k) ==
  LET other(x) == x # k IN SelectSeq(keys, other)

\* the keys of `keys` that are still stored in the cache
StoredOnly(keys, map) ==
  LET stored(x) == IndexOfKey(map, x) # 0 IN SelectSeq(keys, stored)

\* the caches createTtlCache can make here, and what is put into them
MemoryKeys   == {"k1", "k2", "k3"}
MemoryValues == {"v1", "v2"}
MemoryTtls   == {1, 2}
MemoryOptions == [ttlMs : MemoryTtls, maxEntries : 1..MaxEntries]

InitMemory ==
  /\ cacheOpts \in MemoryOptions
  /\ ttlCache = <<>>
  /\ recency = <<>>
  /\ evicted = None
  /\ lastGet = None
IdleMemory ==
  /\ cacheOpts = None /\ ttlCache = <<>> /\ recency = <<>> /\ evicted = None
  /\ lastGet = None

\* cache.set(key, value); `recency` lists the stored keys from the least to the most
\* recently used one, and `evicted` keeps what the overflow branch removed
MemSet(key, value) ==
  /\ cacheOpts # None
  /\ LET put     == cacheSetUnbounded(ttlCache, key, value, now, cacheOpts.ttlMs,
                                      cacheOpts.maxEntries)
         after   == cacheSet(ttlCache, key, value, now, cacheOpts.ttlMs, cacheOpts.maxEntries)
         used    == Append(Without(recency, key), key)
         removed == {k \in MemoryKeys : IndexOfKey(put, k) # 0 /\ IndexOfKey(after, k) = 0}
     IN  /\ ttlCache' = after
         /\ recency' = StoredOnly(used, after)
         /\ evicted' = IF removed = {} THEN None
                       ELSE [keys |-> removed, leastRecent |-> Head(used), written |-> key]
  /\ lastGet' = None
  /\ UNCHANGED <<cacheOpts, clockVars, OutsideMemory>>

\* cache.get(key)
MemGet(key) ==
  /\ cacheOpts # None
  /\ LET got == cacheGet(ttlCache, key, now)
     IN  /\ ttlCache' = got.map
         /\ recency' = IF got.hit THEN Append(Without(recency, key), key)
                       ELSE StoredOnly(recency, got.map)
         /\ lastGet' = [key |-> key, hit |-> got.hit]
  /\ evicted' = None
  /\ UNCHANGED <<cacheOpts, clockVars, OutsideMemory>>

\* cache.prune()
MemPrune ==
  /\ cacheOpts # None
  /\ ttlCache' = cachePrune(ttlCache, now)
  /\ recency' = StoredOnly(recency, ttlCache')
  /\ evicted' = None
  /\ lastGet' = None
  /\ UNCHANGED <<cacheOpts, clockVars, OutsideMemory>>

\* Date.now() advances
TickMemory ==
  /\ cacheOpts # None
  /\ ticks < MaxTicks
  /\ now' = now + 1
  /\ ticks' = ticks + 1
  /\ UNCHANGED <<memoryVars, OutsideMemory>>

MemSetAny == \E key \in MemoryKeys, value \in MemoryValues : MemSet(key, value)
MemGetAny == \E key \in MemoryKeys : MemGet(key)

(***************************************************************************)
(* services/bestbuyAvailability.js and routes/api/availability.js          *)
(***************************************************************************)
NoHandle == 0     \* browser / context undefined or null

AvailabilityTtlMs      == 8 * 60 * 1000
AvailabilityMaxEntries == 1000

Requests == 1..NumRequests

conditionCodeMap == [fair |-> "0", good |-> "1", excellent |-> "2"]

\* mapConditionCodeToLabel(code): inverse[String(code)] || String(code)
mapConditionCodeToLabel(code) ==
  LET inverse == [c \in {"0", "1", "2"} |->
                    IF c = "0" THEN "fair" ELSE IF c = "1" THEN "good" ELSE "excellent"]
  IN  IF code \in DOMAIN inverse THEN inverse[code] ELSE code

\* fetch-stores.js: const conditionMap = { '0': 'fair', ... }, code to name
conditionMap ==
  [c \in {"0", "1", "2", "3"} |->
     IF c = "0" THEN "fair" ELSE IF c = "1" THEN "satisfactory"
     ELSE IF c = "2" THEN "good" ELSE "excellent"]

\* the front end's condition names, as the words they are made of
ConditionNames ==
  [fair |-> <<"Open-Box", "Fair">>, satisfactory |-> <<"Open-Box", "Satisfactory">>,
   good |-> <<"Open-Box", "Good">>, excellent |-> <<"Open-Box", "Excellent">>]

\* the front end's getConditionCode(condition): a chain of condition.includes(...)
getConditionCode(condition) ==
  LET hasWord(word) == \E i \in DOMAIN condition : condition[i] = word
  IN  IF hasWord("Fair") THEN "0"
      ELSE IF hasWord("Satisfactory") THEN "1"
      ELSE IF hasWord("Good") THEN "2"
      ELSE IF hasWord("Excellent") THEN "3"
      ELSE "0"

ConditionCode(cond) ==
  IF cond \in DOMAIN conditionCodeMap THEN conditionCodeMap[cond] ELSE cond

\* the characters of a string
Chars(str) ==
  CASE str = "30303"    -> <<"3", "0", "3", "0", "3">>
    [] str = "3030"     -> <<"3", "0", "3", "0">>
    [] str = "6602747"  -> <<"6", "6", "0", "2", "7", "4", "7">>
    [] str = "36602747" -> <<"3", "6", "6", "0", "2", "7", "4", "7">>
    [] str = ""         -> <<>>
    [] OTHER            -> <<str>>

\* the three parts written one after the other, with nothing in between
CacheKeyNoSeparator(zip, sku, condCode) == Chars(zip) \o Chars(sku) \o Chars(condCode)

\* `${zipCode}|${sku}|${condCode}`
CacheKey(zip, sku, condCode) ==
  Chars(zip) \o <<"|">> \o Chars(sku) \o <<"|">> \o Chars(condCode)

\* request bodies: a valid one, and one without zipCode
RequestBodies ==
  { [zipCode |-> "30303", skus |-> <<"6602747">>, conditions |-> <<"fair">>],
    [zipCode |-> "",      skus |-> <<"6602747">>, conditions |-> <<"fair">>] }

\* request bodies for two zip codes, one or two SKUs, one or two conditions
AvailabilityBodies ==
  [zipCode : {"30303", "3030"},
   skus : {<<"6602747">>, <<"36602747">>, <<"6602747", "36602747">>},
   conditions : {<<"fair">>, <<"fair", "good">>}]

\* the (sku, condition) pairs of a body, SKU-major
Combos(body) ==
  [n \in 1..(Len(body.skus) * Len(body.conditions)) |->
     [sku       |-> body.skus[((n - 1) \div Len(body.conditions)) + 1],
      condition |-> ConditionCode(body.conditions[((n - 1) % Len(body.conditions)) + 1])]]

RECURSIVE LookupCombos(_, _, _, _, _, _)
\* the cache lookup loop: cached hits, missing combos, and the cache afterwards
LookupCombos(map, zip, combos, cachedHits, missing, t) ==
  IF combos = <<>> THEN [map |-> map, cachedHits |-> cachedHits, missingCombos |-> missing]
  ELSE LET combo == Head(combos)
           got   == cacheGet(map, CacheKey(zip, combo.sku, combo.condition), t)
       IN  IF got.hit
             THEN LookupCombos(got.map, zip, Tail(combos), cachedHits \o got.value, missing, t)
             ELSE LookupCombos(got.map, zip, Tail(combos), cachedHits, Append(missing, combo), t)

\* responses of the storeAvailability endpoint for the requested combos
ServiceLocations ==
  { <<>>,
    << [locationId |-> "42"] >>,
    << [locationId |-> "42",
        availability |-> [availablePickupQuantity |-> 0, minDate |-> "2026-01-02"]] >>,
    << [locationId |-> "42",
        availability |-> [availablePickupQuantity |-> 3, minDate |-> "2026-01-02"]] >> }

PostOutcomes(combos) ==
  {[thrown |-> "net::ERR_FAILED"], [ok |-> FALSE, status |-> 403]}
    \cup {[ok |-> TRUE,
           json |-> [items |-> [i \in DOMAIN combos |->
                       [sku |-> combos[i].sku, condition |-> combos[i].condition,
                        locations |-> locs]]]] : locs \in ServiceLocations}

RECURSIVE FlattenHits(_)
FlattenHits(perItem) ==
  IF perItem = <<>> THEN <<>> ELSE Head(perItem) \o FlattenHits(Tail(perItem))

extractHits(respJson) ==
  LET items == IF Has(respJson, "items") THEN respJson.items ELSE <<>>
      hitsOf(item) ==
        LET positive(loc) ==
              Has(loc, "availability") /\ loc.availability.availablePickupQuantity > 0
            locs == SelectSeq(item.locations, positive)
        IN  [i \in DOMAIN locs |->
               [sku           |-> item.sku,
                conditionCode |-> item.condition,
                storeId       |-> locs[i].locationId,
                qty           |-> locs[i].availability.availablePickupQuantity,
                minDate       |-> locs[i].availability.minDate]]
  IN  FlattenHits([i \in DOMAIN items |-> hitsOf(items[i])])

RECURSIVE StoreCombosWithHits(_, _, _, _, _)
\* a store loop that skips the combos the response has no hit for
StoreCombosWithHits(map, zip, combos, hits, t) ==
  IF combos = <<>> THEN map
  ELSE LET combo == Head(combos)
           mine(hit) == hit.sku = combo.sku /\ hit.conditionCode = combo.condition
       IN  StoreCombosWithHits(
             IF SelectSeq(hits, mine) = <<>> THEN map
             ELSE cacheSet(map, CacheKey(zip, combo.sku, combo.condition),
                           SelectSeq(hits, mine), t, AvailabilityTtlMs,
                           AvailabilityMaxEntries),
             zip, Tail(combos), hits, t)

RECURSIVE StoreCombos(_, _, _, _, _)
\* for (const combo of missingCombos) availabilityCache.set(key, grouped.get(key) || [])
StoreCombos(map, zip, combos, hits, t) ==
  IF combos = <<>> THEN map
  ELSE LET combo == Head(combos)
           mine(hit) == hit.sku = combo.sku /\ hit.conditionCode = combo.condition
       IN  StoreCombos(
             cacheSet(map, CacheKey(zip, combo.sku, combo.condition), SelectSeq(hits, mine),
                      t, AvailabilityTtlMs, AvailabilityMaxEntries),
             zip, Tail(combos), hits, t)

\* the route's catch block answering 200 with an empty hit list
RouteCatchAsEmpty(message) == [status |-> 200, body |-> [hits |-> <<>>]]

\* catch (e) { res.status(500).json({ error: e.message || String(e) }) }
RouteCatch(message) == [status |-> 500, body |-> [error |-> message]]

\* res.json({ zipCode, skus, conditions, hits: enriched })
RouteOk(body, hits) ==
  [status |-> 200,
   body   |-> [zipCode |-> body.zipCode, skus |-> body.skus, conditions |-> body.conditions,
               hits |-> hits]]

RouteBadRequest ==
  [status |-> 400, body |-> [error |-> "zipCode, skus[], conditions[] required"]]

NoResponse == [sent |-> FALSE]

IdleRequest ==
  [pc |-> "idle", body |-> None, ctx |-> NoHandle, cachedHits |-> <<>>,
   missingCombos |-> <<>>, acquire |-> "none", query |-> "none", response |-> NoResponse,
   asked |-> <<>>, live |-> {}, posts |-> 0, posted |-> <<>>]

\* the combos among `combos` that were stored for this zip code and whose entry has
\* not expired at time t
LiveCombos(log, zip, combos, t) ==
  {combos[i] : i \in {j \in DOMAIN combos :
      \E e \in log : /\ e.zipCode = zip /\ e.sku = combos[j].sku
                      /\ e.condition = combos[j].condition /\ e.expiresAt > t}}

\* the stored combos after availabilityCache.set for each of `combos` at time t
LogStored(log, zip, combos, t) ==
  log \cup {[zipCode |-> zip, sku |-> combos[i].sku, condition |-> combos[i].condition,
             expiresAt |-> t + AvailabilityTtlMs] : i \in DOMAIN combos}

\* ctx.request.post(STORE_AVAIL_URL, { data: payload }) is called with the missing
\* combos as the payload's items
Post(req, ctx) ==
  [req EXCEPT !.pc = "posting", !.ctx = ctx, !.acquire = "ok",
              !.posts = @ + 1, !.posted = req.missingCombos]

InitService ==
  /\ browser = NoHandle
  /\ context = NoHandle
  /\ handles = 0
  /\ closedHandles = {}
  /\ availabilityCache = <<>>
  /\ rq = [r \in Requests |-> IdleRequest]
  /\ closer = "idle"
  /\ closes = 0
  /\ launches = 0
  /\ handed = {}
  /\ storedLog = {}
IdleService ==
  /\ browser = NoHandle /\ context = NoHandle /\ handles = 0 /\ closedHandles = {}
  /\ availabilityCache = <<>> /\ rq = <<>> /\ closer = "off" /\ closes = 0
  /\ launches = 0 /\ handed = {} /\ storedLog = {}

\* the handler has answered: its locals are gone; its answer, how its session
\* acquisition ended and how its remote query ended are kept
Respond(r, req, response) ==
  rq' = [rq EXCEPT ![r] = [IdleRequest EXCEPT !.pc = "done", !.acquire = req.acquire,
                                              !.query = req.query, !.response = response,
                                              !.asked = req.asked, !.live = req.live,
                                              !.posts = req.posts, !.posted = req.posted]]

\* router.post up to the first await that yields: validation, the cache lookup of
\* getStoreAvailability, and the synchronous part of initBestBuySession
SvcStart(r, body) ==
  /\ r \in DOMAIN rq
  /\ rq[r].pc = "idle"
  /\ IF body.zipCode = ""
       THEN /\ Respond(r, [rq[r] EXCEPT !.body = body], RouteBadRequest)
            /\ UNCHANGED <<availabilityCache, launches, handed>>
     ELSE LET looked == LookupCombos(availabilityCache, body.zipCode, Combos(body),
                                     <<>>, <<>>, now)
              req    == [rq[r] EXCEPT !.body = body,
                                      !.cachedHits = looked.cachedHits,
                                      !.missingCombos = looked.missingCombos,
                                      !.asked = Combos(body),
                                      !.live = LiveCombos(storedLog, body.zipCode,
                                                          Combos(body), now)]
          IN  /\ availabilityCache' = looked.map
              /\ IF looked.missingCombos = <<>>
                   THEN /\ Respond(r, req, RouteOk(body, looked.cachedHits))
                        /\ UNCHANGED <<launches, handed>>
                 ELSE IF context # NoHandle
                   THEN /\ rq' = [rq EXCEPT ![r] = Post(req, context)]
                        /\ handed' = handed \cup {context}
                        /\ UNCHANGED launches
                 ELSE /\ rq' = [rq EXCEPT ![r] = [req EXCEPT !.pc = "launching"]]
                      /\ launches' = launches + 1
                      /\ UNCHANGED handed
  /\ UNCHANGED <<browser, context, handles, closedHandles, closer, closes, storedLog, OutsideService>>

\* initBestBuySession rejects: getStoreAvailability rejects, the route answers
InitRejected(r, message) ==
  Respond(r, [rq[r] EXCEPT !.acquire = "failed"], RouteCatch(message))

\* browser = await chromium.launch(...), then browser.newContext(...) is called
SvcLaunchDone(r, ok) ==
  /\ r \in DOMAIN rq
  /\ rq[r].pc = "launching"
  /\ IF ok
       THEN /\ browser' = handles + 1
            /\ handles' = handles + 1
            /\ rq' = [rq EXCEPT ![r].pc = "newContext"]
       ELSE /\ InitRejected(r, "browserType.launch: Executable doesn't exist")
            /\ UNCHANGED <<browser, handles>>
  /\ UNCHANGED <<context, closedHandles, availabilityCache, closer, closes, launches, handed,
                 storedLog, OutsideService>>

\* context = await browser.newContext(...), then context.newPage() is called
SvcNewContextDone(r, ok) ==
  /\ r \in DOMAIN rq
  /\ rq[r].pc = "newContext"
  /\ IF ok
       THEN /\ context' = handles + 1
            /\ handles' = handles + 1
            /\ rq' = [rq EXCEPT ![r].pc = "newPage"]
       ELSE /\ InitRejected(r, "browser.newContext: Target closed")
            /\ UNCHANGED <<context, handles>>
  /\ UNCHANGED <<browser, closedHandles, availabilityCache, closer, closes, launches, handed,
                 storedLog, OutsideService>>

\* const page = await context.newPage(), outside the try block
SvcNewPageDone(r, ok) ==
  /\ r \in DOMAIN rq
  /\ rq[r].pc = "newPage"
  /\ IF ok
       THEN rq' = [rq EXCEPT ![r].pc = "warmup"]
       ELSE InitRejected(r, "context.newPage: Target closed")
  /\ UNCHANGED <<browser, context, handles, closedHandles, availabilityCache, closer, closes,
                 launches, handed, storedLog, OutsideService>>

\* the warm-up page.goto, whose failure is only logged, and page.close(); then
\* `return context` and the POST of getStoreAvailability
SvcWarmupDone(r, ok) ==
  /\ r \in DOMAIN rq
  /\ rq[r].pc = "warmup"
  /\ IF context = NoHandle
       THEN /\ Respond(r, [rq[r] EXCEPT !.acquire = "ok"],
                       RouteCatch("Cannot read properties of null (reading 'request')"))
            /\ UNCHANGED handed
       ELSE /\ rq' = [rq EXCEPT ![r] = Post(rq[r], context)]
            /\ handed' = handed \cup {context}
  /\ UNCHANGED <<browser, context, handles, closedHandles, availabilityCache, closer, closes,
                 launches, storedLog, OutsideService>>

\* res = await ctx.request.post(...): thrown, not OK, or a JSON payload
SvcPostDone(r, outcome) ==
  /\ r \in DOMAIN rq
  /\ rq[r].pc = "posting"
  /\ outcome \in PostOutcomes(rq[r].missingCombos)
  /\ Has(outcome, "ok") => rq[r].ctx \notin closedHandles
  /\ IF Has(outcome, "thrown")
       THEN /\ Respond(r, [rq[r] EXCEPT !.query = "failed"], RouteCatch(outcome.thrown))
            /\ UNCHANGED <<availabilityCache, storedLog>>
     ELSE IF ~outcome.ok
       THEN /\ Respond(r, [rq[r] EXCEPT !.query = "failed"],
                       RouteCatch("storeAvailability failed 403"))
            /\ UNCHANGED <<availabilityCache, storedLog>>
     ELSE LET hits == extractHits(outcome.json)
          IN  /\ availabilityCache' =
                   StoreCombos(availabilityCache, rq[r].body.zipCode, rq[r].missingCombos,
                               hits, now)
              /\ storedLog' = LogStored(storedLog, rq[r].body.zipCode,
                                        rq[r].missingCombos, now)
              /\ Respond(r, [rq[r] EXCEPT !.query = "ok"],
                         RouteOk(rq[r].body, rq[r].cachedHits \o hits))
  /\ UNCHANGED <<browser, context, handles, closedHandles, closer, closes, launches, handed,
                 OutsideService>>

\* closeBestBuySession(): if (context) await context.close()
CloseStart ==
  /\ closer = "idle"
  /\ closes < MaxCloses
  /\ IF context # NoHandle
       THEN /\ closer' = "closingContext"
            /\ closedHandles' = closedHandles \cup {context}
            /\ UNCHANGED <<browser, context, closes, launches, handed>>
     ELSE IF browser # NoHandle
       THEN /\ closer' = "closingBrowser"
            /\ closedHandles' = closedHandles \cup {browser}
            /\ UNCHANGED <<browser, context, closes, launches, handed>>
     ELSE /\ closer' = "idle"
          /\ closes' = closes + 1
          /\ launches' = 0
          /\ handed' = {}
          /\ UNCHANGED <<browser, context, closedHandles>>
  /\ UNCHANGED <<handles, availabilityCache, rq, storedLog, OutsideService>>

\* context.close() resolved: if (browser) await browser.close()
CloseContextDone ==
  /\ closer = "closingContext"
  /\ IF browser # NoHandle
       THEN /\ closer' = "closingBrowser"
            /\ closedHandles' = closedHandles \cup {browser}
            /\ UNCHANGED <<browser, context, closes, launches, handed>>
       ELSE /\ closer' = "idle"
            /\ context' = NoHandle
            /\ browser' = NoHandle
            /\ closes' = closes + 1
            /\ launches' = 0
            /\ handed' = {}
            /\ UNCHANGED closedHandles
  /\ UNCHANGED <<handles, availabilityCache, rq, storedLog, OutsideService>>

\* browser.close() resolved: context = null; browser = null
CloseBrowserDone ==
  /\ closer = "closingBrowser"
  /\ closer' = "idle"
  /\ context' = NoHandle
  /\ browser' = NoHandle
  /\ closes' = closes + 1
  /\ launches' = 0
  /\ handed' = {}
  /\ UNCHANGED <<handles, closedHandles, availabilityCache, rq, storedLog, OutsideService>>

\* Date.now() advances between two steps of the service
ServiceClockSteps == {AvailabilityTtlMs \div 2, AvailabilityTtlMs}

TickService(step) ==
  /\ rq # <<>>
  /\ ticks < MaxTicks
  /\ now' = now + step
  /\ ticks' = ticks + 1
  /\ UNCHANGED <<serviceVars, normalizerVars, badgeVars, cacheVars, scanVars, aggregatorVars,
                 adapterVars, memoryVars, paginationVars>>

\* the service with nobody calling closeBestBuySession()
InitAvailability ==
  /\ browser = NoHandle /\ context = NoHandle /\ handles = 0 /\ closedHandles = {}
  /\ availabilityCache = <<>>
  /\ rq = [r \in Requests |-> IdleRequest]
  /\ closer = "off" /\ closes = 0 /\ launches = 0 /\ handed = {} /\ storedLog = {}

AvailabilityStartAny == \E r \in Requests, body \in AvailabilityBodies : SvcStart(r, body)
TickServiceAny       == \E step \in ServiceClockSteps : TickService(step)
SvcStartAny          == \E r \in Requests, body \in RequestBodies : SvcStart(r, body)
SvcLaunchDoneAny     == \E r \in Requests, ok \in BOOLEAN : SvcLaunchDone(r, ok)
SvcNewContextDoneAny == \E r \in Requests, ok \in BOOLEAN : SvcNewContextDone(r, ok)
SvcNewPageDoneAny    == \E r \in Requests, ok \in BOOLEAN : SvcNewPageDone(r, ok)
SvcWarmupDoneAny     == \E r \in Requests, ok \in BOOLEAN : SvcWarmupDone(r, ok)
SvcPostDoneAny ==
  \E r \in Requests :
    \E outcome \in PostOutcomes(IF r \in DOMAIN rq THEN rq[r].missingCombos ELSE <<>>) :
      SvcPostDone(r, outcome)

(***************************************************************************)
(* lib/deals.js: fetchAllDeals                                             *)
(***************************************************************************)
\* const ADAPTERS = { bestbuy: bestbuyAdapter }
ADAPTERS == {"bestbuy"}

\* names that ADAPTERS[source] finds on Object.prototype: truthy, and no adapters
ObjectPrototypeKeys == {"constructor"}

SourceNames == {"bestbuy", "microcenter", "constructor"}

\* the config objects handed to fetchAllDeals; a key that is absent is undefined
Configs ==
  LET lists  == SeqsUpTo(SourceNames, MaxSources)
      keys   == [bestbuy |-> "KEY"]
  IN  {[apiKeys |-> keys]}
        \cup {[sources |-> l, apiKeys |-> keys] : l \in lists}
        \cup {[sources |-> l, apiKeys |-> keys, forceRefresh |-> TRUE] : l \in lists}

\* what adapter.fetchDeals can resolve with
AdapterDeals ==
  LET a == [id |-> "bestbuy-1", source |-> "bestbuy", discount |-> 30]
      b == [id |-> "bestbuy-2", source |-> "bestbuy", discount |-> 10]
      c == [id |-> "bestbuy-3", source |-> "bestbuy", discount |-> 30]
  IN  {<<>>, <<a>>, <<b, c>>, <<b, a>>}

\* the Errors adapter.fetchDeals can reject with
AdapterErrors ==
  { [message |-> "Invalid API key. Get a free key at https://developer.bestbuy.com/"],
    [message |-> "Failed to parse response"] }

AdapterOutcomes == {[deals |-> d] : d \in AdapterDeals} \cup {[thrown |-> e] : e \in AdapterErrors}

\* how long an adapter call can take on the clock
AdapterDurations == {0, 5}

\* obj[key] = value
SetProp(obj, key, value) ==
  [k \in DOMAIN obj \cup {key} |-> IF k = key THEN value ELSE obj[k]]

RECURSIVE InsertBeforeEquals(_, _)
\* the place of deal d in a list sorted by descending discount, before its equals
InsertBeforeEquals(sorted, d) ==
  IF sorted = <<>> THEN <<d>>
  ELSE IF Head(sorted).discount > d.discount
    THEN <<Head(sorted)>> \o InsertBeforeEquals(Tail(sorted), d)
  ELSE <<d>> \o sorted

RECURSIVE InsertByDiscount(_, _)
\* the place of deal d in a list sorted by descending discount, after its equals
InsertByDiscount(sorted, d) ==
  IF sorted = <<>> THEN <<d>>
  ELSE IF Head(sorted).discount >= d.discount
    THEN <<Head(sorted)>> \o InsertByDiscount(Tail(sorted), d)
  ELSE <<d>> \o sorted

RECURSIVE SortByDiscount(_)
\* deals.sort((a, b) => b.discount - a.discount): a stable sort
SortByDiscount(deals) ==
  IF deals = <<>> THEN <<>>
  ELSE InsertByDiscount(SortByDiscount(SubSeq(deals, 1, Len(deals) - 1)), deals[Len(deals)])

\* a catch block that lets the adapter's error escape fetchAllDeals
catchRethrow(res, source, e) == [results |-> res, rejected |-> TRUE]

\* catch (e) { results.errors.push(...); results.sources[source] = {...} }
catch(res, source, e) ==
  [results |->
     [res EXCEPT !.errors = Append(@, [source |-> source, error |-> e.message]),
                 !.sources = SetProp(@, source,
                               [count |-> 0, error |-> e.message, success |-> FALSE])],
   rejected |-> FALSE]

NoSources == [x \in {} |-> None]

InitAggregator ==
  /\ aggConfig \in Configs
  /\ aggSources = IF Has(aggConfig, "sources") THEN aggConfig.sources ELSE <<"bestbuy">>
  /\ aggIdx = 1
  /\ aggPc = "loop"
  /\ aggStartTime = 0
  /\ results = [deals |-> <<>>, errors |-> <<>>, sources |-> NoSources]
  /\ settled = <<>>
  /\ inFlight = {} /\ started = <<>>
IdleAggregator ==
  /\ aggConfig = None /\ aggSources = <<>> /\ aggIdx = 0 /\ aggPc = "idle"
  /\ aggStartTime = 0 /\ results = None /\ settled = <<>>
  /\ inFlight = {} /\ started = <<>>

\* a loop iteration for a name that is not in ADAPTERS
AggUnknownSource ==
  /\ aggPc = "loop"
  /\ aggIdx <= Len(aggSources)
  /\ aggSources[aggIdx] \notin ADAPTERS \cup ObjectPrototypeKeys
  /\ LET source == aggSources[aggIdx]
         error  == [source |-> source, error |-> <<"Unknown source: ", source>>]
     IN  /\ results' = [results EXCEPT !.errors = Append(@, error)]
         /\ settled' = Append(settled, [source |-> source, kind |-> "unknown"])
  /\ aggIdx' = aggIdx + 1
  /\ UNCHANGED <<aggConfig, aggSources, aggPc, aggStartTime, inFlight, started, now,
                 OutsideAggregator>>

\* a loop iteration for an inherited property: adapter.fetchDeals is undefined, and
\* calling it throws a TypeError inside the try block
AggInheritedProperty ==
  /\ aggPc = "loop"
  /\ aggIdx <= Len(aggSources)
  /\ aggSources[aggIdx] \in ObjectPrototypeKeys \ ADAPTERS
  /\ LET source == aggSources[aggIdx]
         e      == [message |-> "adapter.fetchDeals is not a function"]
         caught == catch(results, source, e)
     IN  /\ results' = caught.results
         /\ settled' = Append(settled, [source |-> source, kind |-> "rejected",
                                        error |-> e.message])
         /\ aggPc' = IF caught.rejected THEN "rejected" ELSE "loop"
  /\ aggIdx' = aggIdx + 1
  /\ UNCHANGED <<aggConfig, aggSources, aggStartTime, inFlight, started, now,
                 OutsideAggregator>>

\* a fetchDeals call that is not awaited: the loop goes on to the next source at once
fetchDealsNotAwaited(idx) == [pc |-> "loop", idx |-> idx + 1]

\* `await adapter.fetchDeals(...)`: the loop is suspended at this source until the
\* call settles
awaitFetchDeals(idx) == [pc |-> "awaiting", idx |-> idx]

\* a loop iteration up to `await adapter.fetchDeals(apiKeys[source], { forceRefresh })`
AggCallAdapter ==
  /\ aggPc = "loop"
  /\ aggIdx <= Len(aggSources)
  /\ aggSources[aggIdx] \in ADAPTERS
  /\ aggStartTime' = now
  /\ inFlight' = inFlight \cup {aggIdx}
  /\ started' = Append(started, aggIdx)
  /\ LET next == awaitFetchDeals(aggIdx)
     IN  aggPc' = next.pc /\ aggIdx' = next.idx
  /\ UNCHANGED <<aggConfig, aggSources, results, settled, now, OutsideAggregator>>

\* the adapter call settles after some time: the rest of the try block, or the catch
AggSettle(outcome, elapsed) ==
  /\ aggPc = "awaiting"
  /\ now' = now + elapsed
  /\ LET source == aggSources[aggIdx]
     IN  IF Has(outcome, "deals")
           THEN /\ results' =
                     [results EXCEPT
                        !.deals = @ \o outcome.deals,
                        !.sources = SetProp(@, source,
                                      [count |-> Len(outcome.deals),
                                       duration |-> now' - aggStartTime,
                                       success |-> TRUE])]
                /\ settled' = Append(settled, [source |-> source, kind |-> "resolved",
                                               deals |-> outcome.deals])
                /\ aggPc' = "loop"
           ELSE LET caught == catch(results, source, outcome.thrown)
                IN  /\ results' = caught.results
                    /\ settled' = Append(settled, [source |-> source, kind |-> "rejected",
                                                   error |-> outcome.thrown.message])
                    /\ aggPc' = IF caught.rejected THEN "rejected" ELSE "loop"
  /\ aggIdx' = aggIdx + 1
  /\ inFlight' = inFlight \ {aggIdx}
  /\ UNCHANGED <<aggConfig, aggSources, aggStartTime, started, OutsideAggregator>>

\* after the loop: results.deals.sort(...); return results
AggReturn ==
  /\ aggPc = "loop"
  /\ aggIdx > Len(aggSources)
  /\ results' = [results EXCEPT !.deals = SortByDiscount(@)]
  /\ aggPc' = "returned"
  /\ UNCHANGED <<aggConfig, aggSources, aggIdx, aggStartTime, settled, inFlight, started, now,
                 OutsideAggregator>>

AggSettleAny ==
  \E outcome \in AdapterOutcomes, elapsed \in AdapterDurations : AggSettle(outcome, elapsed)

(***************************************************************************)
(* adapters/bestbuy.js and adapters/microcenter.js: fetchDeals, called the *)
(* way fetchAllDeals calls it: fetchDeals(apiKeys[source], {forceRefresh}) *)
(***************************************************************************)
\* const CATEGORY_IDS = { laptops, tablets, storage, desktops }
CATEGORY_IDS == <<"laptops", "tablets", "storage", "desktops">>

searchTerms == <<"laptop", "notebook", "chromebook">>

\* the upstream passes of the Best Buy adapter, in the order fetchDeals runs them
BestBuyPasses ==
  [i \in 1..(2 * Len(CATEGORY_IDS) + Len(searchTerms)) |->
     IF i <= Len(CATEGORY_IDS) THEN [kind |-> "openbox", of |-> CATEGORY_IDS[i]]
     ELSE IF i <= 2 * Len(CATEGORY_IDS)
       THEN [kind |-> "clearance", of |-> CATEGORY_IDS[i - Len(CATEGORY_IDS)]]
     ELSE [kind |-> "search", of |-> searchTerms[i - 2 * Len(CATEGORY_IDS)]]]

\* Object.keys(DEAL_TYPES) x Object.keys(PRODUCT_CATEGORIES), deal type outermost
DEAL_TYPES == <<"openbox", "closeout", "refurbished">>
PRODUCT_CATEGORIES == <<"desktops", "laptops", "apple", "processors", "tvs">>
MicroCenterPages ==
  [i \in 1..(Len(DEAL_TYPES) * Len(PRODUCT_CATEGORIES)) |->
     [dealType |-> DEAL_TYPES[((i - 1) \div Len(PRODUCT_CATEGORIES)) + 1],
      category |-> PRODUCT_CATEGORIES[((i - 1) % Len(PRODUCT_CATEGORIES)) + 1]]]

\* a SKU as upstream JSON carries it: the number 6602747, written "#6602747" here,
\* or the string "6602747"
\* String(sku), and `${sku}` inside a template literal
String(sku) ==
  CASE sku = "#6602747" -> "6602747"
    [] sku = "#6501234" -> "6501234"
    [] OTHER -> sku

\* the template literals that build the Deal ids, for the values of this model
Join(parts) ==
  CASE parts = <<"bestbuy-", "6602747", "-", "L1">>   -> "bestbuy-6602747-L1"
    [] parts = <<"bestbuy-", "6602747", "-", "base">> -> "bestbuy-6602747-base"
    [] parts = <<"bestbuy-clearance-", "6602747">>    -> "bestbuy-clearance-6602747"
    [] parts = <<"bestbuy-clearance-", "6501234">>    -> "bestbuy-clearance-6501234"
    [] parts = <<"mc-", "openbox", "-", "681234">>     -> "mc-openbox-681234"
    [] parts = <<"mc-", "closeout", "-", "681234">>    -> "mc-closeout-681234"
    [] parts = <<"mc-", "refurbished", "-", "681234">> -> "mc-refurbished-681234"

AirTitle == <<"M","a","c","B","o","o","k"," ","A","i","r">>

\* results of the openBox endpoint: a product with one offer, one without offers
OpenBoxProducts ==
  { [sku |-> "#6602747", names |-> [title |-> AirTitle],
     offers |-> << [listingId |-> "L1", condition |-> "excellent",
                    prices |-> [regular |-> 1299, current |-> 909]] >>],
    [sku |-> "#6602747", names |-> [title |-> AirTitle],
     prices |-> [regular |-> 1299, current |-> 909]] }

\* products of the v1/products endpoint (clearance and search passes)
ClearanceProducts ==
  { [sku |-> sku, name |-> AirTitle, regularPrice |-> 1299, salePrice |-> 909,
     percentSavings |-> 30] : sku \in {"#6602747", "6602747"} }
    \cup { [sku |-> "#6501234", name |-> AirTitle, regularPrice |-> 1999,
            salePrice |-> 1949, percentSavings |-> 3] }

\* products parsed from a Micro Center result page
MicroCenterProducts ==
  { [id |-> "681234", sku |-> "681234", brand |-> "Apple", name |-> AirTitle,
     originalPrice |-> 1299, currentPrice |-> 909, stockCount |-> 2] }

Singletons(S) == {<<>>} \cup {<<x>> : x \in S}

\* normalizeOffer(product, offer), offer = None when the product lists no offers
normalizeOffer(product, offer, t) ==
  LET title  == product.names.title
      prices == IF offer # None THEN offer.prices ELSE product.prices
      cond   == IF offer # None THEN offer.condition ELSE ""
  IN  createDeal(
        [id |-> Join(<<"bestbuy-", String(product.sku), "-",
                       IF offer # None THEN offer.listingId ELSE "base">>),
         source |-> "bestbuy",
         category |-> detectCategory(title),
         name |-> title,
         originalPrice |-> prices.regular,
         currentPrice |-> prices.current,
         condition |-> IF cond \in {"excellent", "certified"} THEN "Open-Box Excellent"
                       ELSE IF cond = "good" THEN "Open-Box Good"
                       ELSE IF cond = "satisfactory" THEN "Open-Box Satisfactory"
                       ELSE IF cond = "fair" THEN "Open-Box Fair"
                       ELSE "open-box",
         sku |-> product.sku,
         listingId |-> IF offer # None THEN offer.listingId ELSE Undefined], t)

normalizeClearanceProduct(product, t) ==
  createDeal(
    [id |-> Join(<<"bestbuy-clearance-", String(product.sku)>>),
     source |-> "bestbuy",
     category |-> detectCategory(product.name),
     name |-> product.name,
     originalPrice |-> product.regularPrice,
     currentPrice |-> product.salePrice,
     condition |-> "Clearance",
     sku |-> product.sku], t)

\* the Deal the Micro Center adapter builds from a parsed product
normalizeMicroCenter(product, t) ==
  createDeal(
    [id |-> Join(<<"mc-", product.dealType, "-", product.id>>),
     source |-> "microcenter",
     name |-> product.name,
     brand |-> product.brand,
     originalPrice |-> product.originalPrice,
     currentPrice |-> product.currentPrice,
     condition |-> IF product.dealType = "openbox" THEN "open-box" ELSE product.dealType,
     availability |-> IF product.stockCount > 0 THEN "in-store" ELSE "unknown",
     sku |-> product.sku], t)

RECURSIVE AddOffers(_, _, _)
\* the open-box loop over the products of one category
AddOffers(deals, products, t) ==
  IF products = <<>> THEN deals
  ELSE LET product == Head(products)
           mine == IF Has(product, "offers") /\ product.offers # <<>>
                     THEN [i \in DOMAIN product.offers |->
                             normalizeOffer(product, product.offers[i], t)]
                     ELSE <<normalizeOffer(product, None, t)>>
       IN  AddOffers(deals \o mine, Tail(products), t)

RECURSIVE AddSearchProducts(_, _, _, _)
\* the search loop over the products of one term: skip a seen SKU, remember the SKU,
\* keep the product when it saves 5 % or more
AddSearchProducts(deals, seen, products, t) ==
  IF products = <<>> THEN [deals |-> deals, seen |-> seen]
  ELSE LET product == Head(products)
       IN  IF String(product.sku) \in seen
             THEN AddSearchProducts(deals, seen, Tail(products), t)
             ELSE AddSearchProducts(
                    IF product.percentSavings >= 5
                      THEN Append(deals, normalizeClearanceProduct(product, t))
                      ELSE deals,
                    seen \cup {String(product.sku)}, Tail(products), t)

\* fetchDeals' arguments: apiKeys[source] is a key or undefined, the options
\* object is {forceRefresh}
NoCredentials == [undefined |-> TRUE]
ApiKey == [string |-> "KEY"]
AdapterArgs ==
  [credentials : {NoCredentials, ApiKey}, options : [forceRefresh : BOOLEAN]]

\* the options object each adapter destructures: bestbuy.fetchDeals(apiKey, options)
\* takes the second argument, microcenter.fetchDeals(options) the first one, with
\* {} for undefined
OptionsOf(source, args) ==
  IF source = "bestbuy" THEN args.options
  ELSE IF args.credentials = NoCredentials THEN <<>>
  ELSE args.credentials

\* const { forceRefresh = false } = options
ForceRefreshOf(options) ==
  IF Has(options, "forceRefresh") THEN options.forceRefresh ELSE FALSE

NewLog ==
  [requests |-> 0, writes |-> 0, listed |-> 0, failed |-> 0, served |-> "none",
   fatal |-> FALSE]

InitAdapter ==
  /\ adSource \in CacheKeys
  /\ adArgs \in AdapterArgs
  /\ adPc = "start"
  /\ adStep = 0
  /\ allDeals = <<>>
  /\ allProducts = <<>>
  /\ seenSkus = {}
  /\ adLog = NewLog
  /\ adResult = None
  /\ adCached = None
IdleAdapter ==
  /\ adSource = None /\ adArgs = None /\ adPc = "idle" /\ adStep = 0 /\ allDeals = <<>>
  /\ allProducts = <<>> /\ seenSkus = {} /\ adLog = None /\ adResult = None
  /\ adCached = None

\* the cache directory an adapter call can find: no record, or one written at
\* StartTime
InitAdapterCache ==
  /\ files \in {[k \in CacheKeys |-> NoFile],
                write([k \in CacheKeys |-> NoFile], "bestbuy", <<CachedDealA>>, StartTime),
                write([k \in CacheKeys |-> NoFile], "microcenter", <<CachedDealB>>, StartTime)}
  /\ written = None
  /\ lastRead = None
  /\ now \in {StartTime + 1, StartTime + DEFAULT_TTL + 1}
  /\ ticks = 0

\* fetchDeals up to its first await: the cache check
AdStart ==
  /\ adPc = "start"
  /\ LET cached == read(files, adSource, now)
     IN  /\ adCached' = cached
         /\ IF ~ForceRefreshOf(OptionsOf(adSource, adArgs)) /\ cached # ReadNull
                 /\ ~cached.expired
              THEN /\ adResult' = [resolved |-> cached.deals]
                   /\ adLog' = [adLog EXCEPT !.served = "cache"]
                   /\ adPc' = "done"
              ELSE /\ adPc' = IF adSource = "bestbuy" THEN "validate" ELSE "launch"
                   /\ UNCHANGED <<adResult, adLog>>
  /\ UNCHANGED <<adSource, adArgs, adStep, allDeals, allProducts, seenSkus, OutsideAdapter>>

\* Best Buy: the API key validation request
BbValidate(ok) ==
  /\ adPc = "validate"
  /\ IF ok
       THEN /\ adPc' = "passes"
            /\ adStep' = 1
            /\ adLog' = [adLog EXCEPT !.requests = @ + 1]
            /\ UNCHANGED adResult
       ELSE /\ adPc' = "done"
            /\ adResult' = [rejected |->
                 "Invalid API key. Get a free key at https://developer.bestbuy.com/"]
            /\ adLog' = [adLog EXCEPT !.requests = @ + 1, !.fatal = TRUE]
            /\ UNCHANGED adStep
  /\ UNCHANGED <<adSource, adArgs, allDeals, allProducts, seenSkus, adCached, OutsideAdapter>>

\* Best Buy: one category of the open-box pass or of the clearance pass, or one
\* search term, with what the paginated fetch returned; when the request for its first
\* page fails the fetch logs the error and returns the empty list
BbPass(products, failed) ==
  /\ adPc = "passes"
  /\ failed => products = <<>>
  /\ adStep <= Len(BestBuyPasses)
  /\ adLog.listed + Len(products) <= MaxProducts
  /\ LET pass == BestBuyPasses[adStep]
         seen == IF pass.of = searchTerms[1]
                   THEN {allDeals[i].sku : i \in DOMAIN allDeals} ELSE seenSkus
     IN  IF pass.kind = "openbox"
           THEN /\ products \in Singletons(OpenBoxProducts)
                /\ allDeals' = AddOffers(allDeals, products, now)
                /\ UNCHANGED seenSkus
         ELSE IF pass.kind = "clearance"
           THEN /\ products \in Singletons(ClearanceProducts)
                /\ allDeals' = allDeals \o
                     [i \in DOMAIN products |-> normalizeClearanceProduct(products[i], now)]
                /\ UNCHANGED seenSkus
         ELSE /\ products \in Singletons(ClearanceProducts)
              /\ allDeals' = AddSearchProducts(allDeals, seen, products, now).deals
              /\ seenSkus' = AddSearchProducts(allDeals, seen, products, now).seen
  /\ adStep' = adStep + 1
  /\ adLog' = [adLog EXCEPT !.requests = @ + 1, !.listed = @ + Len(products),
                            !.failed = IF failed THEN @ + 1 ELSE @]
  /\ UNCHANGED <<adSource, adArgs, adPc, allProducts, adResult, adCached, files, written,
                 lastRead, clockVars, OutsideAdapterAndCache>>

\* Best Buy: after the passes, cache.write(SOURCE, allDeals) and return allDeals
BbFinish ==
  /\ adPc = "passes"
  /\ adStep > Len(BestBuyPasses)
  /\ files' = write(files, "bestbuy", allDeals, now)
  /\ adResult' = [resolved |-> allDeals]
  /\ adLog' = [adLog EXCEPT !.writes = @ + 1, !.served = "upstream"]
  /\ adPc' = "done"
  /\ UNCHANGED <<adSource, adArgs, adStep, allDeals, allProducts, seenSkus, adCached, written,
                 lastRead, clockVars, OutsideAdapterAndCache>>

\* Micro Center: firefox.launch, newContext, addInitScript and newPage inside the try
\* block; a failure is caught and logged
McLaunch(ok) ==
  /\ adPc = "launch"
  /\ IF ok
       THEN /\ adPc' = "pages"
            /\ adStep' = 1
            /\ UNCHANGED adLog
       ELSE /\ adPc' = "normalize"
            /\ adLog' = [adLog EXCEPT !.fatal = TRUE]
            /\ UNCHANGED adStep
  /\ UNCHANGED <<adSource, adArgs, allDeals, allProducts, seenSkus, adResult, adCached,
                 OutsideAdapter>>

\* Micro Center: fetchPage for one deal type and category; when the page fails to load
\* fetchPage logs the error and returns the empty list
McPage(products, failed) ==
  /\ adPc = "pages"
  /\ failed => products = <<>>
  /\ adStep <= Len(MicroCenterPages)
  /\ products \in Singletons(MicroCenterProducts)
  /\ adLog.listed + Len(products) <= MaxProducts
  /\ allProducts' = allProducts \o
       [i \in DOMAIN products |->
          products[i] @@ [category |-> MicroCenterPages[adStep].category,
                          dealType |-> MicroCenterPages[adStep].dealType]]
  /\ adStep' = adStep + 1
  /\ adPc' = IF adStep = Len(MicroCenterPages) THEN "normalize" ELSE "pages"
  /\ adLog' = [adLog EXCEPT !.requests = @ + 1, !.listed = @ + Len(products),
                            !.failed = IF failed THEN @ + 1 ELSE @]
  /\ UNCHANGED <<adSource, adArgs, allDeals, seenSkus, adResult, adCached, OutsideAdapter>>

\* Micro Center: after the finally block, the products become Deals, are cached when
\* there is at least one, and are returned
McFinish ==
  /\ adPc = "normalize"
  /\ LET deals == [i \in DOMAIN allProducts |-> normalizeMicroCenter(allProducts[i], now)]
     IN  /\ allDeals' = deals
         /\ adResult' = [resolved |-> deals]
         /\ IF deals # <<>>
              THEN /\ files' = write(files, "microcenter", deals, now)
                   /\ adLog' = [adLog EXCEPT !.writes = @ + 1, !.served = "upstream"]
              ELSE /\ UNCHANGED files
                   /\ adLog' = [adLog EXCEPT !.served = "upstream"]
  /\ adPc' = "done"
  /\ UNCHANGED <<adSource, adArgs, adStep, allProducts, seenSkus, adCached, written, lastRead,
                 clockVars, OutsideAdapterAndCache>>

BbValidateAny == \E ok \in BOOLEAN : BbValidate(ok)
BbPassAny ==
  \E products \in Singletons(OpenBoxProducts \cup ClearanceProducts), failed \in BOOLEAN :
    BbPass(products, failed)
McLaunchAny   == \E ok \in BOOLEAN : McLaunch(ok)
McPageAny ==
  \E products \in Singletons(MicroCenterProducts), failed \in BOOLEAN : McPage(products, failed)

(***************************************************************************)
(* adapters/bestbuy.js and bestbuy-search.jsx: the paginated listing loops *)
(***************************************************************************)
PaginationLoops ==
  {"fetchCategoryOffers", "fetchClearanceProducts", "fetchDealsBySearch", "fetchInventory"}

\* the loops of adapters/bestbuy.js, which count their retries
CountingLoops == {"fetchCategoryOffers", "fetchClearanceProducts", "fetchDealsBySearch"}

MAX_RETRIES == 3   \* const MAX_RETRIES = 3

SEARCH_PAGE_CAP == 10   \* while (hasMore && page <= 10)

\* what one https.get can end in: a page of results out of totalPages, a body without
\* results, a body that is not JSON, a status other than 200, or an 'error' event
Responses ==
  {[status |-> 200, results |-> 1, totalPages |-> n] : n \in 1..MaxPages}
    \cup {[status |-> 200, results |-> 0], [status |-> 200, invalid |-> TRUE],
          [status |-> 403], [status |-> 429], [status |-> 500],
          [networkError |-> "socket hang up"]}

\* `${res.statusCode}` inside the template literal
StatusText(status) ==
  CASE status = 403 -> "403"
    [] status = 429 -> "429"
    [] status = 500 -> "500"

\* fetch(url): the message of the Error it rejects with, as the sequence of the pieces
\* the code builds it from; the empty sequence when it resolves
ErrorMessage(response) ==
  IF Has(response, "networkError") THEN <<response.networkError>>
  ELSE IF response.status = 200
    THEN IF Has(response, "invalid") THEN <<"Invalid JSON response">> ELSE <<>>
  ELSE IF response.status = 403 THEN <<"403", " Forbidden - possibly rate limited">>
  ELSE IF response.status = 429 THEN <<"Rate limited - too many requests">>
  ELSE <<"API returned ", StatusText(response.status)>>

\* e.message.includes('403'), on the pieces of the message
Includes403(message) == \E i \in DOMAIN message : message[i] = "403"

\* the condition of the catch block's if: fetchInventory has no retry counter
Retries(loop, message, count) ==
  Includes403(message) /\ (loop \in CountingLoops => count < MAX_RETRIES)

\* the condition of the while loop
LoopGoesOn ==
  hasMore /\ (pgLoop = "fetchDealsBySearch" => page <= SEARCH_PAGE_CAP)

InitPagination ==
  /\ pgLoop \in PaginationLoops
  /\ pgPc = "while"
  /\ page = 1
  /\ hasMore = TRUE
  /\ retryCount = 0
  /\ upstream \in {"mixed", "throttled"}
  /\ attempts = 0
  /\ lastFailure = None
IdlePagination ==
  /\ pgLoop = None /\ pgPc = "idle" /\ page = 0 /\ hasMore = FALSE /\ retryCount = 0
  /\ upstream = None /\ attempts = 0 /\ lastFailure = None

\* one iteration of the while loop up to its next await: the request for `page` and
\* either the try block after it or the catch block
PgRequest(response) ==
  /\ pgPc = "while"
  /\ LoopGoesOn
  /\ upstream = "throttled" => response = [status |-> 403]
  /\ LET message == ErrorMessage(response)
     IN  IF message = <<>>
           THEN /\ retryCount' = 0
                /\ attempts' = 0
                /\ lastFailure' = None
                /\ IF response.results > 0
                     THEN LET total == IF pgLoop = "fetchDealsBySearch"
                                           /\ response.totalPages > SEARCH_PAGE_CAP
                                         THEN SEARCH_PAGE_CAP ELSE response.totalPages
                          IN  IF page >= total
                                THEN hasMore' = FALSE /\ UNCHANGED <<page, pgPc>>
                                ELSE /\ page' = page + 1
                                     /\ pgPc' = "delay1000"
                                     /\ UNCHANGED hasMore
                     ELSE hasMore' = FALSE /\ UNCHANGED <<page, pgPc>>
         ELSE /\ attempts' = IF attempts < MaxAttempts THEN attempts + 1 ELSE attempts
              /\ lastFailure' = [response |-> response, retries |-> retryCount,
                                  retried |-> Retries(pgLoop, message, retryCount)]
              /\ IF Retries(pgLoop, message, retryCount)
                   THEN /\ retryCount' = IF pgLoop \in CountingLoops THEN retryCount + 1
                                          ELSE retryCount
                        /\ pgPc' = "delay3000"
                        /\ UNCHANGED <<page, hasMore>>
                   ELSE /\ hasMore' = FALSE
                        /\ UNCHANGED <<page, pgPc, retryCount>>
  /\ UNCHANGED <<pgLoop, upstream, OutsidePagination>>

\* await delay(1000) or await delay(3000) has resolved: back to the loop condition
PgDelayDone ==
  /\ pgPc \in {"delay1000", "delay3000"}
  /\ pgPc' = "while"
  /\ UNCHANGED <<pgLoop, page, hasMore, retryCount, upstream, attempts, lastFailure,
                 OutsidePagination>>

\* the loop condition is false: return allOffers / allProducts
PgReturn ==
  /\ pgPc = "while"
  /\ ~LoopGoesOn
  /\ pgPc' = "returned"
  /\ UNCHANGED <<pgLoop, page, hasMore, retryCount, upstream, attempts, lastFailure,
                 OutsidePagination>>

PgRequestAny == \E response \in Responses : PgRequest(response)

(***************************************************************************)
(* Specifications                                                          *)
(***************************************************************************)
NormalizerInit == InitClock /\ InitNormalizer /\ IdleBadge /\ IdleCache /\ IdleScan /\ IdleService /\ IdleAggregator /\ IdleAdapter /\ IdleMemory /\ IdlePagination
NextNormalizer == CreateDeal \/ TickNormalizer
SpecNormalizer == NormalizerInit /\ [][NextNormalizer]_vars

BadgeInit == InitClock /\ IdleNormalizer /\ InitBadge /\ IdleCache /\ IdleScan /\ IdleService /\ IdleAggregator /\ IdleAdapter /\ IdleMemory /\ IdlePagination
NextBadge == CallGetDealBadge
SpecBadge == BadgeInit /\ [][NextBadge]_vars

CacheInit == InitClock /\ IdleNormalizer /\ IdleBadge /\ InitCache /\ IdleScan /\ IdleService /\ IdleAggregator /\ IdleAdapter /\ IdleMemory /\ IdlePagination
NextCache == WriteAny \/ ReadAny \/ ClearAny \/ TickCacheAny
SpecCache == CacheInit /\ [][NextCache]_vars

ScanInit == InitClock /\ IdleNormalizer /\ IdleBadge /\ IdleCache /\ InitScan /\ IdleService /\ IdleAggregator /\ IdleAdapter /\ IdleMemory /\ IdlePagination
NextScan ==
  \/ FsLaunchAny \/ FsNewContextAny \/ FsLoadPageAny
  \/ FsLocalIssue \/ FsLocalQueryAny \/ FsScanSkip \/ FsScanIssue \/ FsScanQueryAny \/ FsOutput
SpecScan == ScanInit /\ [][NextScan]_vars

\* a resolution by either resolver: the fetch-stores.js script, or the service
ResolverInit ==
  /\ InitClock /\ IdleNormalizer /\ IdleBadge /\ IdleCache /\ IdleAggregator /\ IdleAdapter /\ IdleMemory /\ IdlePagination
  /\ \/ InitScan /\ IdleService
     \/ IdleScan /\ InitService
NextService ==
  \/ SvcStartAny \/ SvcLaunchDoneAny \/ SvcNewContextDoneAny \/ SvcNewPageDoneAny
  \/ SvcWarmupDoneAny \/ SvcPostDoneAny
  \/ CloseStart \/ CloseContextDone \/ CloseBrowserDone
NextResolver == NextScan \/ NextService
SpecResolver == ResolverInit /\ [][NextResolver]_vars

AggregatorInit ==
  /\ InitClock /\ IdleNormalizer /\ IdleBadge /\ IdleCache /\ IdleScan /\ IdleService
  /\ InitAggregator /\ IdleAdapter /\ IdleMemory /\ IdlePagination
NextAggregator ==
  AggUnknownSource \/ AggInheritedProperty \/ AggCallAdapter \/ AggSettleAny \/ AggReturn
SpecAggregator == AggregatorInit /\ [][NextAggregator]_vars

AdapterInit ==
  /\ IdleNormalizer /\ IdleBadge /\ IdleScan /\ IdleService /\ IdleAggregator
  /\ InitAdapterCache /\ InitAdapter /\ IdleMemory /\ IdlePagination
NextAdapter ==
  AdStart \/ BbValidateAny \/ BbPassAny \/ BbFinish \/ McLaunchAny \/ McPageAny \/ McFinish
SpecAdapter == AdapterInit /\ [][NextAdapter]_vars

StoreScansInit ==
  /\ InitClock /\ IdleNormalizer /\ IdleBadge /\ IdleCache /\ IdleService /\ IdleAggregator
  /\ IdleAdapter /\ IdleMemory /\ IdlePagination
  /\ (InitScan \/ InitHandler)
NextHandler == HandlerStart \/ HandlerIssue \/ HandlerQueryAny \/ HandlerRespond
NextStoreScans == NextScan \/ NextHandler
SpecStoreScans == StoreScansInit /\ [][NextStoreScans]_vars

AvailabilityInit ==
  /\ InitClock /\ IdleNormalizer /\ IdleBadge /\ IdleCache /\ IdleScan /\ IdleAggregator
  /\ IdleAdapter /\ IdleMemory /\ IdlePagination /\ InitAvailability
NextAvailability ==
  \/ AvailabilityStartAny \/ SvcLaunchDoneAny \/ SvcNewContextDoneAny \/ SvcNewPageDoneAny
  \/ SvcWarmupDoneAny \/ SvcPostDoneAny \/ TickServiceAny
SpecAvailability == AvailabilityInit /\ [][NextAvailability]_vars

MemoryInit ==
  /\ InitClock /\ IdleNormalizer /\ IdleBadge /\ IdleCache /\ IdleScan /\ IdleService
  /\ IdleAggregator /\ IdleAdapter /\ InitMemory /\ IdlePagination
NextMemory == MemSetAny \/ MemGetAny \/ MemPrune \/ TickMemory
SpecMemory == MemoryInit /\ [][NextMemory]_vars

PaginationInit ==
  /\ InitClock /\ IdleNormalizer /\ IdleBadge /\ IdleCache /\ IdleScan /\ IdleService
  /\ IdleAggregator /\ IdleAdapter /\ IdleMemory /\ InitPagination
NextPagination == PgRequestAny \/ PgDelayDone \/ PgReturn
SpecPagination == PaginationInit /\ [][NextPagination]_vars

\* a timer that was started fires and an awaited request settles: the loop is never
\* left suspended for ever
SpecPaginationLive == PaginationInit /\ [][NextPagination]_vars /\ WF_vars(NextPagination)

(***************************************************************************)
(* Claims about the normalizer and the classifier                          *)
(***************************************************************************)
\* r is num/den rounded to the nearest integer, halves up (den > 0)
IsRounded(r, num, den) == (2 * r - 1) * den <= 2 * num /\ 2 * num < (2 * r + 1) * den

\* C1: every Deal built by createDeal has discount = round(100 * (original -
\* current) / original) of its own originalPrice and currentPrice, and
\* discount = 0 whenever its originalPrice <= 0 (or was missing).
C1_DiscountFromPrices ==
  deal # None =>
    IF deal.originalPrice <= 0
      THEN deal.discount = 0
      ELSE IsRounded(deal.discount, 100 * (deal.originalPrice - deal.currentPrice),
                     deal.originalPrice)

\* C2: discount and dealBadge never come from the raw input: an input that
\* differs from the one given only in a supplied upstream discount (or badge)
\* yields the same discount and the same dealBadge.
C2_UpstreamDiscountIgnored ==
  deal # None =>
    \A d \in UpstreamDiscounts, b \in {"good", "great"} :
      LET other == ("discount" :> d) @@ ("dealBadge" :> b) @@ fields
      IN  /\ createDeal(other, now).discount = deal.discount
          /\ createDeal(other, now).dealBadge = deal.dealBadge

\* the thresholds the claim names: those of c in the table, (20, 30) otherwise
TableThresholds(c) ==
  IF \E i \in DOMAIN CATEGORIES : CATEGORIES[i].id = c
    THEN LET row == CATEGORIES[CHOOSE i \in DOMAIN CATEGORIES : CATEGORIES[i].id = c]
         IN  <<row.goodDeal, row.greatDeal>>
    ELSE <<20, 30>>

C4_NormalizeIdempotent ==
  (deal # None /\ prev # None) =>
    \A key \in DealKeys \ {"fetchedAt"} : deal[key] = prev[key]

C4_Witness ==
  /\ deal # None
  /\ prev # None
  /\ deal.fetchedAt # prev.fetchedAt

(***************************************************************************)
(* Claims about the file cache                                             *)
(***************************************************************************)
\* the payload read back is the payload written: same length, and every
\* property of every Deal reads the same
SamePayload(got, given) ==
  /\ Len(got) = Len(given)
  /\ \A i \in DOMAIN given : \A key \in DealKeys : Prop(got[i], key) = Prop(given[i], key)

\* a read of a key that has a record returns that record's payload
ReadReturnsLatestWrite ==
  (lastRead # None /\ written[lastRead.key] # None) =>
    /\ lastRead.result # ReadNull
    /\ SamePayload(lastRead.result.deals, written[lastRead.key].deals)

NoDuplicateId(stores) ==
  \A i, j \in DOMAIN stores : i # j => stores[i].id # stores[j].id

\* C6: at every point of the resolution and in its final result no store id
\* occurs more than once in the resolved hit list, whatever the queries return.
C6_StoreIdAtMostOnce ==
  /\ NoDuplicateId(allStores)
  /\ Has(output, "stores") => NoDuplicateId(output.stores)

\* the hits for one store id
HitsFor(stores, id) == {i \in DOMAIN stores : stores[i].id = id}

DistanceAndTag(stores) ==
  /\ \A id \in DOMAIN observed : HitsFor(stores, id) # {}
  /\ \A i \in DOMAIN stores :
       LET store == stores[i]
           first == observed[store.id]
       IN  IF first.from = "local"
             THEN store.distance = first.distance /\ ~Has(store, "searchedFrom")
             ELSE /\ store.distance = Null
                  /\ Has(store, "searchedFrom")
                  /\ store.searchedFrom = first.from
                  /\ Cardinality(HitsFor(stores, store.id)) = 1

\* C8: a store first observed in the local query keeps the distance reported
\* for it and carries no sampling-location tag; a store first observed at a
\* sampling location Z has distance null, is tagged as searched from Z and has
\* exactly one hit.
C8_DistanceAndTag ==
  /\ fsPc = "scan" => DistanceAndTag(allStores)
  /\ (fsPc = "done" /\ ~Has(output, "error")) => DistanceAndTag(output.stores)

\* the example: only the second sampling zip code returns store 42 with qty 3
C8_Witness ==
  /\ fsPc = "done"
  /\ zipCode = "30303"
  /\ Has(output, "stores")
  /\ output.stores =
       << [id |-> "42", name |-> "Best Buy", distance |-> Null, quantity |-> 3,
           pickupDate |-> "2026-01-02", searchedFrom |-> "90001"] >>
  /\ observed["42"].from = "90001"


(***************************************************************************)
(* Claims about the browser session of the availability service            *)
(***************************************************************************)
\* C9: between two closes at most one browser is launched by initBestBuySession,
\* whatever the interleaving of the callers, and all callers are handed the same
\* context handle.
C9_SessionSingleton ==
  /\ launches <= 1
  /\ Cardinality(handed) <= 1

\* a request whose session acquisition failed and that has been answered
AcquireFailed(r) == rq[r].pc = "done" /\ rq[r].acquire = "failed"

\* an answer that reports a failure: an error field, and no hit list
IsFailedResponse(response) ==
  /\ response.status = 500
  /\ Has(response.body, "error")
  /\ ~Has(response.body, "hits")

\* C10: when the session cannot be acquired, the service answers HTTP 500 with an
\* error field and no hit list, and the fetch-stores.js script prints an output that
\* carries an error field; neither ends as an error-free empty result.
C10_AcquireFailureIsExplicit ==
  /\ \A r \in DOMAIN rq : AcquireFailed(r) => IsFailedResponse(rq[r].response)
  /\ (fsPc = "done" /\ fsSession = "failed") => Has(output, "error")

C10_Witness ==
  \E r \in DOMAIN rq :
    /\ AcquireFailed(r)
    /\ rq[r].response.status = 500
    /\ launches >= 1

(***************************************************************************)
(* Claims about the aggregator                                             *)
(***************************************************************************)
RECURSIVE ResolvedDeals(_)
\* the deals the succeeding adapter calls returned, in call order
ResolvedDeals(log) ==
  IF log = <<>> THEN <<>>
  ELSE (IF Head(log).kind = "resolved" THEN Head(log).deals ELSE <<>>)
         \o ResolvedDeals(Tail(log))

\* the error entries the failing and the unknown sources should have left, in order
ExpectedErrors(log) ==
  LET failed(entry) == entry.kind # "resolved"
      failures == SelectSeq(log, failed)
  IN  [i \in DOMAIN failures |->
         [source |-> failures[i].source,
          error  |-> IF failures[i].kind = "unknown"
                       THEN <<"Unknown source: ", failures[i].source>>
                       ELSE failures[i].error]]

Occurrences(seq, x) == Cardinality({i \in DOMAIN seq : seq[i] = x})

SameDeals(s1, s2) ==
  /\ Len(s1) = Len(s2)
  /\ \A i \in DOMAIN s1 : Occurrences(s1, s1[i]) = Occurrences(s2, s1[i])

\* C7: fetchAllDeals never rejects; once it has returned, every source of the list has
\* been handled, the result's deals are exactly the deals the succeeding adapter calls
\* returned, and the errors list holds exactly one {source, error} entry per failing or
\* unknown source, in source order.
C7_AggregatorIsolation ==
  /\ aggPc # "rejected"
  /\ aggPc = "returned" =>
       /\ Len(settled) = Len(aggSources)
       /\ SameDeals(results.deals, ResolvedDeals(settled))
       /\ results.errors = ExpectedErrors(settled)

C7_Witness ==
  /\ aggPc = "returned"
  /\ \E i, j, k \in DOMAIN settled :
       /\ settled[i].kind = "rejected"
       /\ settled[j].kind = "unknown"
       /\ settled[k].kind = "resolved" /\ settled[k].deals # <<>>
  /\ Len(results.errors) = 2

RECURSIVE SumOfCounts(_, _)
\* the sum of the count fields of the per-source stats recorded as successful
SumOfCounts(stats, names) ==
  IF names = {} THEN 0
  ELSE LET name == CHOOSE n \in names : TRUE
       IN  (IF stats[name].success THEN stats[name].count ELSE 0)
             + SumOfCounts(stats, names \ {name})

\* C29: once fetchAllDeals has returned, every position of the source list is accounted
\* for once, as a successful per-source entry or as an entry of errors, and the
\* length of the deals array is the sum of the counts of the sources recorded as
\* successful.
C29_PerSourceAccounting ==
  aggPc = "returned" =>
    /\ \A i \in DOMAIN aggSources :
         \/ /\ aggSources[i] \in DOMAIN results.sources
            /\ results.sources[aggSources[i]].success
         \/ \E k \in DOMAIN results.errors : results.errors[k].source = aggSources[i]
    /\ Len(results.deals) = SumOfCounts(results.sources, DOMAIN results.sources)

\* the deals of a list that have discount v, in the list's order
WithDiscount(deals, v) ==
  LET has(d) == d.discount = v
  IN  SelectSeq(deals, has)

\* C15: the deals fetchAllDeals returns are in non-increasing order of discount, and
\* the deals of equal discount are in the order of source iteration: source-list
\* order, then the order in which the adapter returned them.
C15_SortedByDiscountStable ==
  aggPc = "returned" =>
    LET sorted   == results.deals
        iterated == ResolvedDeals(settled)
    IN  /\ \A i \in 1..(Len(sorted) - 1) : sorted[i].discount >= sorted[i + 1].discount
        /\ \A v \in {sorted[i].discount : i \in DOMAIN sorted} :
             WithDiscount(sorted, v) = WithDiscount(iterated, v)

C15_Witness ==
  /\ aggPc = "returned"
  /\ results.deals # ResolvedDeals(settled)
  /\ \E i, j \in DOMAIN results.deals :
       /\ i < j
       /\ results.deals[i].discount = results.deals[j].discount
       /\ results.deals[i].id # results.deals[j].id

(***************************************************************************)
(* Claims about failing queries of the store scans                         *)
(***************************************************************************)
\* every store of `before` is in `after`
Kept(before, after) ==
  \A k \in DOMAIN before : \E j \in DOMAIN after : after[j] = before[k]

\* the zip codes the loop has to query
ToQuery ==
  IF handler = None
    THEN {NATIONWIDE_ZIPCODES[i] : i \in DOMAIN NATIONWIDE_ZIPCODES} \ {zipCode}
    ELSE {handler.zipCodes[i] : i \in DOMAIN handler.zipCodes}

SamplingTable == IF handler = None THEN NATIONWIDE_ZIPCODES ELSE metroZips

PositionIn(table, zip) == CHOOSE i \in DOMAIN table : table[i] = zip

\* the queries issued after the one for the requester's own zip code
SamplingQueries == IF zipCode = Null THEN queried ELSE Tail(queried)

\* C21: within one resolution the scan is strictly sequential and ordered: the first
\* query is for the requester's own zip code, the later ones are for sampling zip codes
\* in the order of the table, and at no point are two queries of the resolution in
\* flight (a query is issued only after the previous one has settled).
C21_ScanSequentialAndOrdered ==
  /\ Cardinality(pending) <= 1
  /\ \A p \in pending : p = Len(queried)
  /\ (queried # <<>> /\ zipCode # Null) => queried[1] = zipCode
  /\ queried # <<>> =>
       /\ \A i \in DOMAIN SamplingQueries :
            \E k \in DOMAIN SamplingTable : SamplingTable[k] = SamplingQueries[i]
       /\ \A i, j \in DOMAIN SamplingQueries :
            i < j => PositionIn(SamplingTable, SamplingQueries[i])
                       < PositionIn(SamplingTable, SamplingQueries[j])

\* the example: the third query of a script run is in flight, the first two have settled
C21_Witness ==
  /\ handler = None
  /\ fsPc = "scanWait"
  /\ Len(queried) = 3
  /\ pending = {3}
  /\ queried[1] = zipCode

\* C24: a positive pickup quantity is the sole admission criterion: every location the
\* response just received reports with availablePickupQuantity > 0 has its store in
\* the list of stores, whatever else the response lacks (such as its store details).
C24_PositiveQuantityAdmits ==
  (fsPc = "scan" /\ Has(lastResult, "inStock")) =>
    \A id \in lastResult.inStock : \E i \in DOMAIN allStores : allStores[i].id = id

\* C26: one resolution issues at most 1 + |sampling table| queries and queries no zip
\* code more than once: the requester's zip code is not queried again when it is also
\* a sampling zip code.
C26_RequestVolumeBounded ==
  /\ Len(queried) <= 1 + Len(SamplingTable)
  /\ \A i, j \in DOMAIN queried : i # j => queried[i] # queried[j]

(***************************************************************************)
(* Claims about the availability cache                                     *)
(***************************************************************************)
\* every requested combination had a live entry when request r looked it up
AllLive(r) == \A i \in DOMAIN rq[r].asked : rq[r].asked[i] \in rq[r].live

\* the requested combinations of request r that had no live entry, in request order
NotLive(r) ==
  LET missing(combo) == combo \notin rq[r].live
  IN  SelectSeq(rq[r].asked, missing)

\* C18: a live cache entry short-circuits the remote query for exactly its own
\* (zip, sku, condition) combination: the one remote request getStoreAvailability
\* sends asks for exactly the requested combinations that had no live entry when it
\* looked them up, and when every requested combination had a live entry it acquires
\* no session, sends no request and answers from the cache; it answers without a
\* request only in that case.
C18_LiveEntryShortCircuits ==
  \A r \in DOMAIN rq :
    rq[r].asked # <<>> =>
      /\ rq[r].posts <= 1
      /\ rq[r].posts = 1 => rq[r].posted = NotLive(r)
      /\ \A i \in DOMAIN rq[r].posted : rq[r].posted[i] \notin rq[r].live
      /\ AllLive(r) =>
           /\ rq[r].acquire = "none"
           /\ rq[r].posts = 0
           /\ rq[r].pc = "done" /\ rq[r].response.status = 200
      /\ (rq[r].pc = "done" /\ rq[r].posts = 0 /\ rq[r].response.status = 200) => AllLive(r)

C18_Witness ==
  \E r, q \in DOMAIN rq :
    /\ rq[q].pc = "done" /\ rq[q].posts = 1 /\ rq[q].query = "ok"
    /\ rq[r].pc = "done" /\ rq[r].asked # <<>>
    /\ AllLive(r)
    /\ rq[r].response.body.hits = <<>>
    /\ rq[r].posts = 0
    /\ now > StartTime

\* the entries of a cache, whatever their order
Entries(map) == {map[i] : i \in DOMAIN map}

\* request r receives an OK response to its remote query in this step
QuerySucceeds(r) == rq[r].pc = "posting" /\ rq'[r].pc = "done" /\ rq'[r].query = "ok"

\* the entry the step stores for a combination request r asked the provider about
StoredFor(r, combo) ==
  LET mine(hit) == hit.sku = combo.sku /\ hit.conditionCode = combo.condition
  IN  [key       |-> CacheKey(rq[r].body.zipCode, combo.sku, combo.condition),
       value     |-> SelectSeq(rq'[r].response.body.hits, mine),
       expiresAt |-> now + AvailabilityTtlMs]

ScriptCode(label) == CHOOSE c \in DOMAIN conditionMap : conditionMap[c] = label

\* C30: the condition labels map to provider codes through one consistent table: the
\* code the availability service sends upstream for a label of a request is the code
\* the nationwide-scan script and the front end use for that label, and the
\* service's own table round-trips, mapConditionCodeToLabel(conditionCodeMap[label])
\* = label.
C30_ConditionCodesConsistent ==
  \A r \in DOMAIN rq :
    rq[r].pc = "posting" =>
      \A i \in DOMAIN rq[r].body.conditions :
        LET label == rq[r].body.conditions[i]
        IN  /\ label \in DOMAIN conditionCodeMap =>
                 mapConditionCodeToLabel(conditionCodeMap[label]) = label
            /\ ConditionCode(label) = ScriptCode(label)
            /\ ConditionCode(label) = getConditionCode(ConditionNames[label])

(***************************************************************************)
(* Claims about the in-memory TTL cache                                    *)
(***************************************************************************)
\* C16: a cache created with maxEntries = N, N >= 1, never stores more than N entries,
\* whatever set, get and prune operations are applied to it.
C16_MemoryCacheBounded ==
  cacheOpts # None => Len(ttlCache) <= cacheOpts.maxEntries

C16_Witness ==
  /\ cacheOpts # None
  /\ Len(ttlCache) = cacheOpts.maxEntries
  /\ evicted # None
  /\ now > StartTime

\* C17: whenever a set pushes the cache over maxEntries, the entry it removes is the
\* one whose most recent use (a successful get, or a set, overwriting sets included)
\* is the oldest among the stored entries; the key just written is never removed
\* while another key is stored.
C17_EvictsLeastRecentlyUsed ==
  evicted # None =>
    /\ evicted.keys = {evicted.leastRecent}
    /\ (Len(ttlCache) > 0 => evicted.written \notin evicted.keys)

(***************************************************************************)
(* Claims about failing availability queries                               *)
(***************************************************************************)
\* C11: once the session has been acquired, a failing availability query does not
\* make the resolution end in error: a service request whose session was acquired
\* and whose remote query failed is not answered with HTTP 500, and a run of the
\* fetch-stores.js script whose session was established prints no error output.
C11_QueryFailureNotFatal ==
  /\ \A r \in DOMAIN rq :
       (rq[r].pc = "done" /\ rq[r].acquire = "ok" /\ rq[r].query = "failed")
         => rq[r].response.status # 500
  /\ (fsPc = "done" /\ fsSession = "established") => ~Has(output, "error")

(***************************************************************************)
(* Claims about the source adapters                                        *)
(***************************************************************************)
\* the caller asked for a refresh
Forced == adArgs.options.forceRefresh

\* the call found a record of its source that had not expired
FoundFresh == adCached # ReadNull /\ ~adCached.expired

\* C12: a finished fetchDeals(credentials, {forceRefresh}) call that was not forced
\* and found a fresh record resolved with the cached payload, sent no upstream
\* request and wrote no cache record; a call that was forced, or found no fresh
\* record, took the upstream path and did not answer from the cache.
C12_AdapterAppliesCache ==
  adPc = "done" =>
    IF ~Forced /\ FoundFresh
      THEN /\ adResult = [resolved |-> adCached.deals]
           /\ adLog.requests = 0
           /\ adLog.writes = 0
      ELSE adLog.served # "cache"

\* C13: a fetchDeals call that met an unrecoverable failure (the API key was refused,
\* the browser could not be launched) rejected with a message; it did not resolve.
C13_UnrecoverableFailureRejects ==
  (adPc = "done" /\ adLog.fatal) => Has(adResult, "rejected")

\* C19: the Deals one fetch cycle of an adapter returns carry pairwise different ids.
C19_DealIdsUnique ==
  (adPc = "done" /\ adLog.served = "upstream" /\ Has(adResult, "resolved")) =>
    \A i, j \in DOMAIN adResult.resolved :
      i # j => adResult.resolved[i].id # adResult.resolved[j].id

\* C28: an adapter refresh that collected zero deals because its upstream requests
\* failed does not replace the existing cache record of its source: after the call a
\* read of the source returns the record (timestamp and payload) found at its start.
C28_FailedRefreshKeepsRecord ==
  (/\ adPc = "done"
   /\ adLog.served = "upstream"
   /\ Has(adResult, "resolved")
   /\ adResult.resolved = <<>>
   /\ (adLog.failed > 0 \/ adLog.fatal)
   /\ adCached # ReadNull) =>
    read(files, adSource, now) = adCached

(***************************************************************************)
(* Claims about the paginated listing loops                                *)
(***************************************************************************)
\* C22: retry is bounded: a page request that keeps receiving the throttling signal
\* is attempted at most 3 times in total, each retry after a wait of 3 s, and then the
\* loop gives up on the page; the budget is per page (retryCount is 0 again after a
\* page that loaded).
C22_RetryBounded ==
  pgLoop \in CountingLoops =>
    /\ attempts <= 3
    /\ (lastFailure # None /\ lastFailure.retried /\ attempts > 0) =>
         pgPc \in {"delay3000", "while"}
    /\ (lastFailure = None /\ pgPc # "idle") => retryCount = 0

ThrottlingSignals == {403, 429}

\* C23: a failed request is retried exactly when its failure is a throttling signal:
\* an HTTP 403 or 429 response is retried while the retry budget lasts, and an invalid
\* JSON body, a transport error or any other HTTP status is never retried.
C23_RetriedIffThrottled ==
  (pgLoop \in CountingLoops /\ lastFailure # None) =>
    LET response   == lastFailure.response
        throttling == Has(response, "status") /\ response.status \in ThrottlingSignals
    IN  /\ lastFailure.retried => throttling
        /\ (throttling /\ lastFailure.retries < MAX_RETRIES) => lastFailure.retried

\* C27: every listing pagination loop terminates under persistent throttling: when
\* the provider answers every page request with HTTP 403, the loop eventually stops
\* issuing requests and returns.
C27_TerminatesUnderThrottling ==
  (upstream = "throttled") ~> (pgPc = "returned")

====
